---- MODULE Spec2Model ----
(***************************************************************************)
(* A model of the two dictionary generators of 8891689/dictionary:         *)
(*   generator.c               single dictionary, tuples of length L       *)
(*   combination_dictionary.c  prefix x suffix; the file holds two         *)
(*                             programs, the single-threaded one (lines    *)
(*                             1-286, "cd_v1") and the threaded one        *)
(*                             (lines 288-684, "cd")                       *)
(* Bytes are one-character strings; a file, a token, a private buffer and  *)
(* the sink are sequences of bytes.                                        *)
(***************************************************************************)
EXTENDS Integers, Sequences, FiniteSets, TLC

(***************************************************************************)
(* Bounds of the model.                                                    *)
(***************************************************************************)
\* thread arguments 0..MaxThreads are tried (0 stands for every value <= 0)
MaxThreads == 2
\* tuple lengths 0..MaxLen are tried
MaxLen == 4
\* the longest tuple generator.c accepts (MAX_WORD_LENGTH, 256 in
\* generator.c:39); longer lengths are skipped
MAX_WORD_LENGTH == 3
\* item counts (-n) 0..MaxItems are tried
MaxItems == 2
\* lines one worker draws in unbounded random mode before the model stops it
InfCap == 1
\* width of the u128 type in the model (128 in generator.c:40): totals live
\* in [0, 2^U128Bits)
U128Bits == 3
\* width of a draw of the generator in the model (64 in the source)
RandBits == 1
\* capacity of a worker's private buffer in generator.c (4 MiB in the
\* source); the flush test leaves room for MAX_LINE_SIZE bytes
GEN_BUFFER_SIZE == 2056
\* capacity of a worker's private buffer in combination_dictionary.c (4 MiB
\* in the source)
CD_BUFFER_SIZE == 8

(***************************************************************************)
(* Constants of the programs.                                              *)
(***************************************************************************)
MAX_LINE_SIZE == 2048
FGETS_SIZE == 1024

NL == "\n"
CR == "\r"
SP == " "
\* a file argument: the bytes of the file, or a name that cannot be opened
File(bytes) == [open |-> TRUE, data |-> bytes]
NoFile == [open |-> FALSE, data |-> <<>>]

\* the MappedFile pointer a failed map_and_index_file / map_file returns
NULL == [null |-> TRUE]

RECURSIVE Pow(_, _)
Pow(b, e) == IF e = 0 THEN 1 ELSE b * Pow(b, e - 1)

U128_LIMIT == Pow(2, U128Bits)

Min(a, b) == IF a < b THEN a ELSE b

RECURSIVE Flatten(_)
Flatten(ss) == IF ss = <<>> THEN <<>> ELSE Head(ss) \o Flatten(Tail(ss))

\* index of the first byte of s, from position i on, that is in set stop;
\* Len(s) + 1 when there is none
FindFirst(s, i, stop) ==
    LET hits == {k \in i..Len(s) : s[k] \in stop}
    IN  IF hits = {} THEN Len(s) + 1
        ELSE CHOOSE k \in hits : \A j \in hits : k <= j

(***************************************************************************)
(* generator.c: read_dictionary                                            *)
(***************************************************************************)
\* fgets(buffer, sizeof(buffer), fp) at position pos (1-based) of the file:
\* the bytes up to and including the next newline, at most FGETS_SIZE - 1
fgets(file, pos) ==
    LET nl == FindFirst(file, pos, {NL})
        last == Min(Min(nl, Len(file)), pos + FGETS_SIZE - 2)
    IN  SubSeq(file, pos, last)

\* strcspn(buffer, "\r\n")
strcspn(buffer) == FindFirst(buffer, 1, {CR, NL}) - 1

RECURSIVE read_lines(_, _)
read_lines(file, pos) ==
    IF pos > Len(file) THEN <<>>
    ELSE LET buffer == fgets(file, pos)
             len == strcspn(buffer)
             rest == read_lines(file, pos + Len(buffer))
         IN  IF len = 0 THEN rest
             ELSE <<SubSeq(buffer, 1, len)>> \o rest

\* the WordInfo array: words[i].word as a byte sequence, words[i].len its Len
read_dictionary(file) == read_lines(file, 1)

(***************************************************************************)
(* combination_dictionary.c (threaded): map_and_index_file                 *)
(***************************************************************************)
CountNL(data) == Cardinality({i \in DOMAIN data : data[i] = NL})

\* the LineInfo records of the lines ending at a newline, from byte i on;
\* start is a 1-based offset into data
RECURSIVE index_lines(_, _, _)
index_lines(data, i, line_start) ==
    IF i > Len(data)
    THEN IF line_start <= Len(data)
         THEN <<[start |-> line_start, len |-> Len(data) + 1 - line_start]>>
         ELSE <<>>
    ELSE IF data[i] = NL
         THEN <<[start |-> line_start, len |-> i - line_start]>>
              \o index_lines(data, i + 1, i + 1)
         ELSE index_lines(data, i + 1, line_start)

map_and_index_file(file) ==
    IF Len(file) = 0 THEN NULL
    ELSE LET line_count == CountNL(file)
                           + (IF file[Len(file)] # NL THEN 1 ELSE 0)
         IN  IF line_count = 0 THEN NULL
             ELSE [null |-> FALSE, data |-> file, size |-> Len(file),
                   line_count |-> line_count,
                   lines |-> index_lines(file, 1, 1)]

\* the bytes of line idx (0-based) of a mapped file
LineBytes(mf, idx) ==
    LET li == mf.lines[idx + 1]
    IN  SubSeq(mf.data, li.start, li.start + li.len - 1)

(***************************************************************************)
(* combination_dictionary.c (single-threaded): map_file                    *)
(***************************************************************************)
\* offsets[] holds the 0-based position of every newline, then the file size
\* when the last byte is no newline
map_file(file) ==
    IF Len(file) = 0
    THEN [null |-> FALSE, data |-> <<>>, size |-> 0, line_count |-> 0,
          offsets |-> <<>>]
    ELSE LET nls == {i \in DOMAIN file : file[i] = NL}
             ends == {i - 1 : i \in nls}
                     \cup (IF file[Len(file)] # NL THEN {Len(file)} ELSE {})
             RECURSIVE Sorted(_)
             Sorted(S) == IF S = {} THEN <<>>
                          ELSE LET m == CHOOSE x \in S : \A y \in S : x <= y
                               IN  <<m>> \o Sorted(S \ {m})
         IN  [null |-> FALSE, data |-> file, size |-> Len(file),
              line_count |-> Cardinality(ends), offsets |-> Sorted(ends)]

\* the bytes of line idx (0-based): from the byte after the previous offset
\* to the byte before this one
V1LineBytes(mf, idx) ==
    LET start == IF idx > 0 THEN mf.offsets[idx] + 1 ELSE 0
        end == mf.offsets[idx + 1]
    IN  SubSeq(mf.data, start + 1, end)

(***************************************************************************)
(* generator.c: arithmetic of the combination index space                  *)
(***************************************************************************)
\* n & m on naturals
RECURSIVE BitAnd(_, _)
BitAnd(n, m) ==
    IF n = 0 \/ m = 0 THEN 0
    ELSE (n % 2) * (m % 2) + 2 * BitAnd(n \div 2, m \div 2)

\* the test that takes every size above 0 for a power of two
is_power_of_two_nonzero(n) == n > 0

is_power_of_two(n) == (n > 0) /\ (BitAnd(n, n - 1) = 0)

\* (int) log2(n), n >= 1
RECURSIVE log2(_)
log2(n) == IF n <= 1 THEN 0 ELSE 1 + log2(n \div 2)

\* an overflow test that lets the product 2^U128Bits through
mul_overflow_off_by_one(a, b) == a * b > U128_LIMIT

\* __builtin_mul_overflow on u128: the product does not fit the type
mul_overflow(a, b) == a * b >= U128_LIMIT

RECURSIVE pow_loop(_, _, _)
pow_loop(result, base, i) ==
    IF i = 0 THEN result
    ELSE IF mul_overflow(result, base) THEN 0
    ELSE pow_loop(result * base, base, i - 1)

int_pow128(base, exp) == pow_loop(1, base, exp)

\* indices[length-1 .. 0] by mask and shift; indices[k] is element k + 1
RECURSIVE decompose_shift(_, _, _, _)
decompose_shift(temp_index, length, mask, shift_bits) ==
    IF length <= 0 THEN <<>>
    ELSE Append(decompose_shift(temp_index \div Pow(2, shift_bits),
                                length - 1, mask, shift_bits),
                BitAnd(temp_index, mask))

\* indices[length-1 .. 0] by modulo and division
RECURSIVE decompose_div(_, _, _)
decompose_div(temp_index, length, numWords) ==
    IF length <= 0 THEN <<>>
    ELSE Append(decompose_div(temp_index \div numWords, length - 1, numWords),
                temp_index % numWords)

decompose(data) ==
    IF data.is_power_of_two
    THEN decompose_shift(data.startIndex, data.length, data.mask,
                         data.shift_bits)
    ELSE decompose_div(data.startIndex, data.length, data.numWords)

\* the odometer without its carry: a position that wraps leaves the
\* positions before it alone
odometer_no_carry(ind, k, numWords) ==
    IF k = 0 THEN ind
    ELSE IF ind[k] + 1 < numWords THEN [ind EXCEPT ![k] = @ + 1]
    ELSE [ind EXCEPT ![k] = 0]

\* the odometer that lets a position reach numWords before it wraps
RECURSIVE odometer_late_wrap(_, _, _)
odometer_late_wrap(ind, k, numWords) ==
    IF k = 0 THEN ind
    ELSE IF ind[k] + 1 <= numWords THEN [ind EXCEPT ![k] = @ + 1]
    ELSE odometer_late_wrap([ind EXCEPT ![k] = 0], k - 1, numWords)

\* the odometer that counts with the first position varying fastest
odometer_first_fastest(ind, k, numWords) ==
    LET RECURSIVE up(_, _)
        up(x, j) ==
            IF j > k THEN x
            ELSE IF x[j] + 1 < numWords THEN [x EXCEPT ![j] = @ + 1]
            ELSE up([x EXCEPT ![j] = 0], j + 1)
    IN  up(ind, 1)

\* the odometer: for (k = length - 1; k >= 0; --k)
\*                   { if (++indices[k] < numWords) break; indices[k] = 0; }
RECURSIVE odometer(_, _, _)
odometer(ind, k, numWords) ==
    IF k = 0 THEN ind
    ELSE IF ind[k] + 1 < numWords THEN [ind EXCEPT ![k] = @ + 1]
    ELSE odometer([ind EXCEPT ![k] = 0], k - 1, numWords)

\* the line with a separator after every token, the last one too
RECURSIVE join_tokens_trailing(_, _, _)
join_tokens_trailing(tokens, k, noSpaces) ==
    IF k > Len(tokens) THEN <<>>
    ELSE tokens[k]
         \o (IF ~noSpaces /\ k <= Len(tokens) THEN <<SP>> ELSE <<>>)
         \o join_tokens_trailing(tokens, k + 1, noSpaces)

\* the line with the test of the separator written with || for &&
RECURSIVE join_tokens_or(_, _, _)
join_tokens_or(tokens, k, noSpaces) ==
    IF k > Len(tokens) THEN <<>>
    ELSE tokens[k]
         \o (IF ~noSpaces \/ k < Len(tokens) THEN <<SP>> ELSE <<>>)
         \o join_tokens_or(tokens, k + 1, noSpaces)

\* the bytes one line adds to the buffer, from the tokens of its positions
RECURSIVE join_tokens(_, _, _)
join_tokens(tokens, k, noSpaces) ==
    IF k > Len(tokens) THEN <<>>
    ELSE tokens[k]
         \o (IF ~noSpaces /\ k < Len(tokens) THEN <<SP>> ELSE <<>>)
         \o join_tokens(tokens, k + 1, noSpaces)

\* sequential mode: the line of the odometer state ind
sequential_line(dict, ind, noSpaces) ==
    join_tokens([k \in 1..Len(ind) |-> dict[ind[k] + 1]], 1, noSpaces)
    \o <<NL>>

\* the mapping that takes the low half of the product
fast_map_to_range_low_half(r, range) == (r * range) % Pow(2, RandBits)

\* (uint32_t)(((u128)r * range) >> 64), for draws of RandBits bits
fast_map_to_range(r, range) == (r * range) \div Pow(2, RandBits)

Draws == 0..(Pow(2, RandBits) - 1)

\* what reading words[i] gives: the entry, or for an index outside the
\* entries read_dictionary wrote, the uninitialised bytes of the malloc'ed
\* array (here: a zeroed entry, the empty token)
word_at(dict, i) == IF i < Len(dict) THEN dict[i + 1] ELSE <<>>

\* random mode: generate_random_line and the newline, from the draws rs
generate_random_line(dict, rs, numWords, noSpaces) ==
    join_tokens([k \in 1..Len(rs) |->
                    word_at(dict, fast_map_to_range(rs[k], numWords))],
                1, noSpaces)
    \o <<NL>>

(***************************************************************************)
(* The state.                                                              *)
(***************************************************************************)
VARIABLES
    prog,           \* the program that runs: "generator", "cd" or "cd_v1"
    argv,           \* the parsed command line; a file argument is File(bytes)
                    \* or NoFile for a file that cannot be opened
    env,            \* what the platform answers to each worker: time(NULL),
                    \* pthread_self(), and where thread_data[] is
    main_pc,        \* where main is: "start", "for_len", "spawn", "join",
                    \* "emit" (cd_v1), "exit", "killed"
    exit_code,      \* the process's exit status once main_pc is "exit" or
                    \* "killed"
    num_threads,    \* after the coercion of values <= 0
    words,          \* generator.c: the dictionary read_dictionary built
    prefix, suffix, \* combination_dictionary.c: the two mapped files
    len,            \* generator.c: the loop variable len
    end_length,     \* generator.c: end_length after the swap
    batch,          \* main's locals of the current batch (or cd_v1 loop)
    next_i,         \* the index i of main's spawn loop or join loop
    thread_data,    \* thread_data[i]
    tpc,            \* where worker i is: "none", "start", "loop", "lock",
                    \* "write", "unlock", "format", "lock_end", "write_end",
                    \* "unlock_end", "done"
    iter,           \* worker i's loop counter
    indices,        \* worker i's odometer (generator.c) or <<p_idx, s_idx>>
    write_buffer,   \* worker i's private buffer, the bytes written so far
    buffer_offset,  \* worker i's buffer_offset
    mutex,          \* the mutex: whether it is locked, and by which thread
    sink            \* the output: one record per fwrite call, in order:
                    \* the caller, the tuple length of its lines, whether
                    \* the call succeeded, and the bytes the sink received

vars == <<prog, argv, env, main_pc, exit_code, num_threads, words, prefix, suffix,
          len, end_length, batch, next_i, thread_data, tpc, iter, indices,
          write_buffer, buffer_offset, mutex, sink>>

inputVars == <<prog, argv, env>>
loadVars == <<num_threads, words, prefix, suffix, end_length>>
workerVars == <<tpc, iter, indices, write_buffer, buffer_offset>>

Threads == 0..(MaxThreads - 1)

MODE_SEQUENTIAL == "MODE_SEQUENTIAL"
MODE_RANDOM == "MODE_RANDOM"

(***************************************************************************)
(* The inputs.                                                             *)
(***************************************************************************)
\* dictionary files of generator.c: missing, empty, without a usable line,
\* and of 1, 2 (no trailing newline; CRLF) and 3 tokens
DictFiles ==
    { NoFile, File(<<>>), File(<<NL>>),
      File(<<"a", NL>>),
      File(<<"a", NL, "b", "c">>),
      File(<<"a", CR, NL, "b", NL>>),
      File(<<"a", NL, "b", NL, "c", NL>>) }

\* prefix and suffix files of combination_dictionary.c
PairFiles ==
    { NoFile, File(<<>>),
      File(<<"x", NL>>),
      File(<<"x", NL, "y", "z">>),
      File(<<"1", NL, "2", NL, "3", NL>>) }

\* -l: a single length n, or a range a-b of two lengths, ascending or
\* descending
LengthArgs ==
    { l \in (0..MaxLen) \X (0..MaxLen) : l[1] - l[2] \in {0 - 1, 0, 1} }

ThreadArgs == 0..MaxThreads

\* the dictionaries and the lengths of the random runs: every line of a
\* random run is one of numWords^length
RandomDictFiles ==
    { File(<<>>), File(<<"a", NL>>), File(<<"a", NL, "b", "c">>) }

RandomLengthArgs ==
    { <<1, 1>>, <<2, 2>>, <<1, 2>>, <<MaxLen, MaxLen>> }

\* a range of lengths in random mode is run on the dictionaries of at most
\* one token
RandomInputs ==
    { p \in RandomDictFiles \X RandomLengthArgs :
        p[2][1] = p[2][2] \/ Len(p[1].data) <= 2 }

\* the prefix and suffix files of the random runs
RandomPairFiles ==
    { NoFile, File(<<>>), File(<<"x", NL>>), File(<<"x", NL, "y", "z">>) }

GenArgv(f, l, t, k, m, given, n) ==
    [dict |-> f, start_length |-> l[1], end_length |-> l[2],
     num_threads |-> t, no_spaces |-> k, mode |-> m, n_specified |-> given,
     num_to_generate |-> n]

GenRuns ==
    { [prog |-> "generator",
       argv |-> GenArgv(f, l, t, k, MODE_SEQUENTIAL, FALSE, 0)] :
      f \in DictFiles, l \in LengthArgs, t \in ThreadArgs, k \in BOOLEAN }
    \cup
    { [prog |-> "generator",
       argv |-> GenArgv(p[1], p[2], t, k, MODE_RANDOM, n[1], n[2])] :
      p \in RandomInputs, t \in ThreadArgs, k \in BOOLEAN,
      n \in {<<FALSE, 0>>} \cup {<<TRUE, i>> : i \in 0..MaxItems} }

CdRuns ==
    { [prog |-> "cd",
       argv |-> [prefix |-> f, suffix |-> g, num_threads |-> t,
                 random_mode |-> FALSE]] :
      f \in PairFiles, g \in PairFiles, t \in ThreadArgs }
    \cup
    { [prog |-> "cd",
       argv |-> [prefix |-> f, suffix |-> g, num_threads |-> t,
                 random_mode |-> TRUE]] :
      f \in RandomPairFiles, g \in RandomPairFiles, t \in ThreadArgs }

V1Runs ==
    { [prog |-> "cd_v1",
       argv |-> [prefix |-> f, suffix |-> g, random_mode |-> r]] :
      f \in PairFiles, g \in PairFiles, r \in BOOLEAN }

Runs == GenRuns \cup CdRuns \cup V1Runs

\* thread_data[i] before main assigns it
NoData == [count |-> 0, mode |-> MODE_SEQUENTIAL, infinite |-> FALSE]

PTHREAD_MUTEX_INITIALIZER == [locked |-> FALSE, owner |-> 0]

\* the writer of the sink records of the single-threaded program
MainThread == MaxThreads

NoBatch == [total_combinations |-> 0, per_thread |-> 0, remainder |-> 0,
            current_start_index |-> 0, infinite_mode |-> FALSE]

\* the answers of one platform: every worker starts within the same second,
\* thread i has the identity i + 1, thread_data[] is at address 0
Platform ==
    [time |-> [i \in Threads |-> 0],
     self |-> [i \in Threads |-> i + 1],
     thread_data |-> 0]

\* the state at the entry of main, for a run of the set runs on a platform
\* of the set envs
InitOn(runs, envs) ==
    /\ \E r \in runs : prog = r.prog /\ argv = r.argv
    /\ env \in envs
    /\ main_pc = "start"
    /\ exit_code = 0
    /\ num_threads = 0
    /\ words = <<>>
    /\ prefix = NULL
    /\ suffix = NULL
    /\ len = 0
    /\ end_length = 0
    /\ batch = NoBatch
    /\ next_i = 0
    /\ thread_data = [i \in Threads |-> NoData]
    /\ tpc = [i \in Threads |-> "none"]
    /\ iter = [i \in Threads |-> 0]
    /\ indices = [i \in Threads |-> <<>>]
    /\ write_buffer = [i \in Threads |-> <<>>]
    /\ buffer_offset = [i \in Threads |-> 0]
    /\ mutex = PTHREAD_MUTEX_INITIALIZER
    /\ sink = <<>>

InitFrom(runs) == InitOn(runs, {Platform})

Init == InitFrom(Runs)

\* return code from main, or exit(code)
Exit(code) ==
    /\ main_pc' = "exit"
    /\ exit_code' = code

(***************************************************************************)
(* generator.c: main                                                       *)
(***************************************************************************)
\* main up to the loop over the lengths: the checks of the arguments, the
\* swap of the lengths, the coercion of the thread count, read_dictionary
GenMainStart ==
    /\ prog = "generator"
    /\ main_pc = "start"
    /\ IF argv.start_length <= 0 \/ ~argv.dict.open
       THEN /\ Exit(1)
            /\ UNCHANGED <<loadVars, len>>
       ELSE /\ main_pc' = "for_len"
            /\ len' = Min(argv.start_length, argv.end_length)
            /\ end_length' = IF argv.start_length > argv.end_length
                             THEN argv.start_length ELSE argv.end_length
            /\ num_threads' = IF argv.num_threads <= 0 THEN 1
                              ELSE argv.num_threads
            /\ words' = read_dictionary(argv.dict.data)
            /\ UNCHANGED <<exit_code, prefix, suffix>>
    /\ UNCHANGED <<inputVars, batch, next_i, thread_data, workerVars, mutex,
                   sink>>

\* the head of one iteration of for (len = start_length; len <= end_length;
\* ++len), up to the loop that creates the threads
GenForLen ==
    /\ prog = "generator"
    /\ main_pc = "for_len"
    /\ IF len > end_length
       THEN /\ Exit(0)
            /\ UNCHANGED <<len, batch, next_i>>
       ELSE IF len > MAX_WORD_LENGTH
       THEN /\ len' = len + 1
            /\ UNCHANGED <<main_pc, exit_code, batch, next_i>>
       ELSE LET num_words == Len(words)
                infinite_mode == (argv.mode = MODE_RANDOM)
                                 /\ ~argv.n_specified
                total_combinations ==
                    IF argv.mode = MODE_SEQUENTIAL
                    THEN int_pow128(num_words, len)
                    ELSE IF ~infinite_mode THEN argv.num_to_generate
                    ELSE 0
                none == infinite_mode \/ total_combinations = 0
            IN  IF /\ argv.mode = MODE_SEQUENTIAL
                   /\ total_combinations = 0
                   /\ (num_words > 1 \/ len > 0)
                THEN /\ len' = len + 1
                     /\ UNCHANGED <<main_pc, exit_code, batch, next_i>>
                ELSE /\ batch' =
                          [total_combinations |-> total_combinations,
                           per_thread |-> IF none THEN 0
                               ELSE total_combinations \div num_threads,
                           remainder |-> IF none THEN 0
                               ELSE total_combinations % num_threads,
                           current_start_index |-> 0,
                           infinite_mode |-> infinite_mode]
                     /\ main_pc' = "spawn"
                     /\ next_i' = 0
                     /\ UNCHANGED <<len, exit_code>>
    /\ UNCHANGED <<inputVars, loadVars, thread_data, workerVars, mutex, sink>>

\* thread_data[i] with every worker starting at index 0
GenThreadData_start_zero(i) ==
    LET num_words == Len(words)
        use_power_of_two_opt == is_power_of_two(num_words)
    IN  [startIndex |-> 0,
         count |-> batch.per_thread + (IF i < batch.remainder THEN 1 ELSE 0),
         length |-> len,
         numWords |-> num_words,
         noSpaces |-> argv.no_spaces,
         infinite |-> batch.infinite_mode,
         mode |-> argv.mode,
         is_power_of_two |-> use_power_of_two_opt,
         shift_bits |-> IF use_power_of_two_opt THEN log2(num_words) ELSE 0,
         mask |-> num_words - 1]

\* thread_data[i] with the remainder left out of the counts
GenThreadData_no_remainder(i) ==
    LET num_words == Len(words)
        use_power_of_two_opt == is_power_of_two(num_words)
    IN  [startIndex |-> batch.current_start_index,
         count |-> batch.per_thread,
         length |-> len,
         numWords |-> num_words,
         noSpaces |-> argv.no_spaces,
         infinite |-> batch.infinite_mode,
         mode |-> argv.mode,
         is_power_of_two |-> use_power_of_two_opt,
         shift_bits |-> IF use_power_of_two_opt THEN log2(num_words) ELSE 0,
         mask |-> num_words - 1]

\* thread_data[i] of a random mode that stops at the number of combinations
\* when no item count is given
GenThreadData_stops_at_power(i) ==
    LET num_words == Len(words)
        use_power_of_two_opt == is_power_of_two(num_words)
    IN  [startIndex |-> batch.current_start_index,
         count |-> IF batch.infinite_mode THEN int_pow128(num_words, len)
                   ELSE batch.per_thread
                        + (IF i < batch.remainder THEN 1 ELSE 0),
         length |-> len,
         numWords |-> num_words,
         noSpaces |-> argv.no_spaces,
         infinite |-> FALSE,
         mode |-> argv.mode,
         is_power_of_two |-> use_power_of_two_opt,
         shift_bits |-> IF use_power_of_two_opt THEN log2(num_words) ELSE 0,
         mask |-> num_words - 1]

\* thread_data[i] of generator.c
GenThreadData(i) ==
    LET num_words == Len(words)
        use_power_of_two_opt == is_power_of_two(num_words)
    IN  [startIndex |-> batch.current_start_index,
         count |-> batch.per_thread + (IF i < batch.remainder THEN 1 ELSE 0),
         length |-> len,
         numWords |-> num_words,
         noSpaces |-> argv.no_spaces,
         infinite |-> batch.infinite_mode,
         mode |-> argv.mode,
         is_power_of_two |-> use_power_of_two_opt,
         shift_bits |-> IF use_power_of_two_opt THEN log2(num_words) ELSE 0,
         mask |-> num_words - 1]

\* the loop that creates the threads with current_start_index advanced by
\* the share without the remainder
Spawn_without_remainder(data) ==
    /\ main_pc = "spawn"
    /\ thread_data' = [thread_data EXCEPT ![next_i] = data]
    /\ batch' = [batch EXCEPT !.current_start_index =
                    IF data.mode = MODE_SEQUENTIAL THEN @ + batch.per_thread
                    ELSE @]
    /\ tpc' = [tpc EXCEPT ![next_i] = "start"]
    /\ IF next_i + 1 < num_threads
       THEN next_i' = next_i + 1 /\ UNCHANGED main_pc
       ELSE next_i' = 0 /\ main_pc' = "join"
    /\ UNCHANGED <<inputVars, loadVars, exit_code, len, iter, indices,
                   write_buffer, buffer_offset, mutex, sink>>

\* one iteration of the loop that fills thread_data[i] and creates thread i
Spawn(data) ==
    /\ main_pc = "spawn"
    /\ thread_data' = [thread_data EXCEPT ![next_i] = data]
    /\ batch' = [batch EXCEPT !.current_start_index =
                    IF data.mode = MODE_SEQUENTIAL THEN @ + data.count ELSE @]
    /\ tpc' = [tpc EXCEPT ![next_i] = "start"]
    /\ IF next_i + 1 < num_threads
       THEN next_i' = next_i + 1 /\ UNCHANGED main_pc
       ELSE next_i' = 0 /\ main_pc' = "join"
    /\ UNCHANGED <<inputVars, loadVars, exit_code, len, iter, indices,
                   write_buffer, buffer_offset, mutex, sink>>

GenSpawn ==
    /\ prog = "generator"
    /\ Spawn(GenThreadData(next_i))

\* the loop of pthread_join that does not wait for a thread still running
GenJoin_without_wait ==
    /\ prog = "generator"
    /\ main_pc = "join"
    /\ tpc' = [tpc EXCEPT ![next_i] = IF @ = "done" THEN "none" ELSE @]
    /\ IF next_i + 1 < num_threads
       THEN next_i' = next_i + 1 /\ UNCHANGED <<main_pc, len>>
       ELSE next_i' = 0 /\ main_pc' = "for_len" /\ len' = len + 1
    /\ UNCHANGED <<inputVars, loadVars, exit_code, batch, thread_data, iter,
                   indices, write_buffer, buffer_offset, mutex, sink>>

\* one iteration of the loop of pthread_join; after the last one main goes
\* on to the next length
GenJoin ==
    /\ prog = "generator"
    /\ main_pc = "join"
    /\ tpc[next_i] = "done"
    /\ tpc' = [tpc EXCEPT ![next_i] = "none"]
    /\ IF next_i + 1 < num_threads
       THEN next_i' = next_i + 1 /\ UNCHANGED <<main_pc, len>>
       ELSE next_i' = 0 /\ main_pc' = "for_len" /\ len' = len + 1
    /\ UNCHANGED <<inputVars, loadVars, exit_code, batch, thread_data, iter,
                   indices, write_buffer, buffer_offset, mutex, sink>>

(***************************************************************************)
(* The workers: generation_thread_worker of generator.c and                *)
(* generation_worker of combination_dictionary.c                           *)
(***************************************************************************)
Running == main_pc \notin {"exit", "killed"}

BUFFER_SIZE == IF prog = "generator" THEN GEN_BUFFER_SIZE ELSE CD_BUFFER_SIZE

\* memcpy of bytes into the buffer at offset (0-based)
memcpy(buffer, offset, bytes) ==
    SubSeq(buffer, 1, offset) \o bytes
    \o SubSeq(buffer, offset + Len(bytes) + 1, Len(buffer))

\* a copy that advances the offset by the line without its newline
AddLine_without_newline(t, line) ==
    /\ write_buffer' = [write_buffer EXCEPT
                           ![t] = memcpy(@, buffer_offset[t], line)]
    /\ buffer_offset' = [buffer_offset EXCEPT ![t] = @ + Len(line) - 1]
    /\ iter' = [iter EXCEPT ![t] = @ + 1]
    /\ tpc' = [tpc EXCEPT ![t] = "loop"]

\* the line is copied at buffer_offset, the loop counter is incremented
AddLine(t, line) ==
    /\ write_buffer' = [write_buffer EXCEPT
                           ![t] = memcpy(@, buffer_offset[t], line)]
    /\ buffer_offset' = [buffer_offset EXCEPT ![t] = @ + Len(line)]
    /\ iter' = [iter EXCEPT ![t] = @ + 1]
    /\ tpc' = [tpc EXCEPT ![t] = "loop"]

\* the loop condition of the worker: data->infinite || i < data->count
\* (an unbounded worker is stopped by the model after InfCap lines)
LoopGoesOn(t) ==
    IF thread_data[t].infinite THEN iter[t] < InfCap
    ELSE iter[t] < thread_data[t].count

\* the loop condition that forgets data->infinite
LoopIsOver_forgets_infinite(t) == ~(iter[t] < thread_data[t].count)

LoopIsOver(t) ==
    ~thread_data[t].infinite /\ ~(iter[t] < thread_data[t].count)

\* after the loop: if (buffer_offset > 0) flush; free(write_buffer)
AfterLoop(t) ==
    /\ tpc' = [tpc EXCEPT ![t] = IF buffer_offset[t] > 0 THEN "lock_end"
                                 ELSE "done"]
    /\ UNCHANGED <<iter, indices, write_buffer, buffer_offset>>

\* malloc of the buffer, then the seed of the generator (random mode) or
\* the decomposition of startIndex into indices[] (sequential mode)
GenWorkerStart(t) ==
    /\ prog = "generator"
    /\ Running
    /\ tpc[t] = "start"
    /\ tpc' = [tpc EXCEPT ![t] = "loop"]
    /\ iter' = [iter EXCEPT ![t] = 0]
    /\ write_buffer' = [write_buffer EXCEPT ![t] = <<>>]
    /\ buffer_offset' = [buffer_offset EXCEPT ![t] = 0]
    /\ indices' = [indices EXCEPT ![t] =
                      IF thread_data[t].mode = MODE_RANDOM THEN <<>>
                      ELSE decompose(thread_data[t])]
    /\ UNCHANGED <<inputVars, loadVars, main_pc, exit_code, len, batch,
                   next_i, thread_data, mutex, sink>>

\* the body of the loop after the flush test: one line is formatted
GenFormat(t) ==
    LET data == thread_data[t]
    IN  IF data.mode = MODE_RANDOM
        THEN /\ \E rs \in [1..data.length -> Draws] :
                    AddLine(t, generate_random_line(words, rs, data.numWords,
                                                    data.noSpaces))
             /\ UNCHANGED indices
        ELSE /\ AddLine(t, sequential_line(words, indices[t], data.noSpaces))
             /\ indices' = [indices EXCEPT
                               ![t] = odometer(@, data.length, data.numWords)]

\* one test of the loop condition; when the loop goes on, the flush test,
\* and the line when no flush is needed
GenWorkerLoop(t) ==
    /\ prog = "generator"
    /\ Running
    /\ tpc[t] = "loop"
    /\ IF LoopIsOver(t) THEN AfterLoop(t)
       ELSE /\ LoopGoesOn(t)
            /\ IF BUFFER_SIZE - buffer_offset[t] < MAX_LINE_SIZE
               THEN /\ tpc' = [tpc EXCEPT ![t] = "lock"]
                    /\ UNCHANGED <<iter, indices, write_buffer,
                                   buffer_offset>>
               ELSE GenFormat(t)
    /\ UNCHANGED <<inputVars, loadVars, main_pc, exit_code, len, batch,
                   next_i, thread_data, mutex, sink>>

\* the line that follows a flush inside the loop
GenWorkerFormat(t) ==
    /\ prog = "generator"
    /\ Running
    /\ tpc[t] = "format"
    /\ GenFormat(t)
    /\ UNCHANGED <<inputVars, loadVars, main_pc, exit_code, len, batch,
                   next_i, thread_data, mutex, sink>>

\* random mode on a dictionary of no entry: words[0] is read from the
\* malloc'ed array that read_dictionary never wrote; besides the zeroed
\* entry of word_at, the read of the unset pointer may end the process
GenWorkerSegv(t) ==
    /\ prog = "generator"
    /\ Running
    /\ tpc[t] \in {"loop", "format"}
    /\ thread_data[t].mode = MODE_RANDOM
    /\ thread_data[t].numWords = 0
    /\ thread_data[t].length > 0
    /\ LoopGoesOn(t)
    /\ main_pc' = "killed"
    /\ exit_code' = 139
    /\ UNCHANGED <<inputVars, loadVars, len, batch, next_i, thread_data,
                   workerVars, mutex, sink>>

\* a lock that is taken without regard to its holder
WorkerLock_not_exclusive(t) ==
    /\ Running
    /\ tpc[t] \in {"lock", "lock_end"}
    /\ mutex' = [locked |-> TRUE, owner |-> t]
    /\ tpc' = [tpc EXCEPT ![t] = IF @ = "lock" THEN "write" ELSE "write_end"]
    /\ UNCHANGED <<inputVars, loadVars, main_pc, exit_code, len, batch,
                   next_i, thread_data, iter, indices, write_buffer,
                   buffer_offset, sink>>

\* pthread_mutex_lock(data->mutex)
WorkerLock(t) ==
    /\ Running
    /\ tpc[t] \in {"lock", "lock_end"}
    /\ ~mutex.locked
    /\ mutex' = [locked |-> TRUE, owner |-> t]
    /\ tpc' = [tpc EXCEPT ![t] = IF @ = "lock" THEN "write" ELSE "write_end"]
    /\ UNCHANGED <<inputVars, loadVars, main_pc, exit_code, len, batch,
                   next_i, thread_data, iter, indices, write_buffer,
                   buffer_offset, sink>>

\* the tuple length of the lines worker t formats (0 for a pair)
LengthOf(t) == IF prog = "generator" THEN thread_data[t].length ELSE 0

\* the record of one fwrite call by worker t that the sink accepts
WriteRecord(t) ==
    [by |-> t, len |-> LengthOf(t), ok |-> TRUE,
     bytes |-> SubSeq(write_buffer[t], 1, buffer_offset[t])]

\* fwrite(write_buffer, 1, buffer_offset, file)
WorkerWrite(t) ==
    /\ Running
    /\ tpc[t] \in {"write", "write_end"}
    /\ sink' = Append(sink, WriteRecord(t))
    /\ tpc' = [tpc EXCEPT ![t] = IF @ = "write" THEN "unlock"
                                 ELSE "unlock_end"]
    /\ UNCHANGED <<inputVars, loadVars, main_pc, exit_code, len, batch,
                   next_i, thread_data, iter, indices, write_buffer,
                   buffer_offset, mutex>>

\* an unlock after which the offset of the buffer is not reset
WorkerUnlock_keeps_offset(t) ==
    /\ Running
    /\ tpc[t] \in {"unlock", "unlock_end"}
    /\ mutex' = [mutex EXCEPT !.locked = FALSE]
    /\ tpc' = [tpc EXCEPT ![t] = IF @ = "unlock" THEN "format" ELSE "done"]
    /\ UNCHANGED <<inputVars, loadVars, main_pc, exit_code, len, batch,
                   next_i, thread_data, iter, indices, write_buffer,
                   buffer_offset, sink>>

\* pthread_mutex_unlock(data->mutex); inside the loop buffer_offset = 0
\* follows, after the loop free(write_buffer) and the return
WorkerUnlock(t) ==
    /\ Running
    /\ tpc[t] \in {"unlock", "unlock_end"}
    /\ mutex' = [mutex EXCEPT !.locked = FALSE]
    /\ IF tpc[t] = "unlock"
       THEN /\ tpc' = [tpc EXCEPT ![t] = "format"]
            /\ buffer_offset' = [buffer_offset EXCEPT ![t] = 0]
            /\ UNCHANGED write_buffer
       ELSE /\ tpc' = [tpc EXCEPT ![t] = "done"]
            /\ UNCHANGED <<write_buffer, buffer_offset>>
    /\ UNCHANGED <<inputVars, loadVars, main_pc, exit_code, len, batch,
                   next_i, thread_data, iter, indices, sink>>

(***************************************************************************)
(* combination_dictionary.c, the threaded program: main and its worker     *)
(***************************************************************************)
\* main up to the loop that creates the threads
CdMainStart ==
    /\ prog = "cd"
    /\ main_pc = "start"
    /\ LET p == IF ~argv.prefix.open THEN NULL
                ELSE map_and_index_file(argv.prefix.data)
           s == IF ~argv.suffix.open THEN NULL
                ELSE map_and_index_file(argv.suffix.data)
           mode == IF argv.random_mode THEN MODE_RANDOM ELSE MODE_SEQUENTIAL
           infinite_mode == (mode = MODE_RANDOM)
           threads == IF argv.num_threads <= 0 THEN 1 ELSE argv.num_threads
       IN  IF p.null \/ s.null
           THEN /\ Exit(1)
                /\ UNCHANGED <<loadVars, batch>>
           ELSE LET total_combinations ==
                        IF mode = MODE_SEQUENTIAL
                        THEN p.line_count * s.line_count ELSE 0
                    none == infinite_mode \/ total_combinations = 0
                IN  /\ prefix' = p
                    /\ suffix' = s
                    /\ num_threads' = threads
                    /\ batch' =
                         [total_combinations |-> total_combinations,
                          per_thread |-> IF none THEN 0
                              ELSE total_combinations \div threads,
                          remainder |-> IF none THEN 0
                              ELSE total_combinations % threads,
                          current_start_index |-> 0,
                          infinite_mode |-> infinite_mode]
                    /\ main_pc' = "spawn"
                    /\ UNCHANGED <<exit_code, words, end_length>>
    /\ UNCHANGED <<inputVars, len, next_i, thread_data, workerVars, mutex,
                   sink>>

\* thread_data[i] with the remainder given to the workers i <= remainder
CdThreadData_le_remainder(i) ==
    [start_index |-> batch.current_start_index,
     count |-> batch.per_thread + (IF i <= batch.remainder THEN 1 ELSE 0),
     mode |-> IF argv.random_mode THEN MODE_RANDOM ELSE MODE_SEQUENTIAL,
     infinite |-> batch.infinite_mode]

\* thread_data[i] of combination_dictionary.c
CdThreadData(i) ==
    [start_index |-> batch.current_start_index,
     count |-> batch.per_thread + (IF i < batch.remainder THEN 1 ELSE 0),
     mode |-> IF argv.random_mode THEN MODE_RANDOM ELSE MODE_SEQUENTIAL,
     infinite |-> batch.infinite_mode]

CdSpawn ==
    /\ prog = "cd"
    /\ Spawn(CdThreadData(next_i))

\* one iteration of the loop of pthread_join; after the last one main
\* cleans up and returns 0
CdJoin ==
    /\ prog = "cd"
    /\ main_pc = "join"
    /\ tpc[next_i] = "done"
    /\ tpc' = [tpc EXCEPT ![next_i] = "none"]
    /\ IF next_i + 1 < num_threads
       THEN next_i' = next_i + 1 /\ UNCHANGED <<main_pc, exit_code>>
       ELSE next_i' = 0 /\ Exit(0)
    /\ UNCHANGED <<inputVars, loadVars, len, batch, thread_data, iter,
                   indices, write_buffer, buffer_offset, mutex, sink>>

\* malloc of the buffer, then the seed (random mode) or
\* p_idx = start_index / S_COUNT, s_idx = start_index % S_COUNT
CdWorkerStart(t) ==
    /\ prog = "cd"
    /\ Running
    /\ tpc[t] = "start"
    /\ tpc' = [tpc EXCEPT ![t] = "loop"]
    /\ iter' = [iter EXCEPT ![t] = 0]
    /\ write_buffer' = [write_buffer EXCEPT ![t] = <<>>]
    /\ buffer_offset' = [buffer_offset EXCEPT ![t] = 0]
    /\ indices' = [indices EXCEPT ![t] =
                      IF thread_data[t].mode = MODE_RANDOM THEN <<>>
                      ELSE <<thread_data[t].start_index \div suffix.line_count,
                             thread_data[t].start_index % suffix.line_count>>]
    /\ UNCHANGED <<inputVars, loadVars, main_pc, exit_code, len, batch,
                   next_i, thread_data, mutex, sink>>

\* the bytes of the line of <<p_idx, s_idx>>: prefix, suffix, newline
pair_line(ps) == LineBytes(prefix, ps[1]) \o LineBytes(suffix, ps[2]) \o <<NL>>

\* the step of the pair that forgets p_idx++ when s_idx wraps
pair_next_no_carry(ps, S_COUNT) ==
    IF ps[2] + 1 >= S_COUNT THEN <<ps[1], 0>> ELSE <<ps[1], ps[2] + 1>>

\* if (++s_idx >= S_COUNT) { s_idx = 0; p_idx++; }
pair_next(ps, S_COUNT) ==
    IF ps[2] + 1 >= S_COUNT THEN <<ps[1] + 1, 0>> ELSE <<ps[1], ps[2] + 1>>

\* the two memcpy and the newline for the pair ps; in sequential mode the
\* pair then advances
CdFormat(t, ps) ==
    /\ AddLine(t, pair_line(ps))
    /\ indices' = [indices EXCEPT ![t] =
                      IF thread_data[t].mode = MODE_RANDOM THEN ps
                      ELSE pair_next(ps, suffix.line_count)]

\* the flush test for the pair ps, and the line when no flush is needed
CdTestAndFormat(t, ps) ==
    IF BUFFER_SIZE - buffer_offset[t]
           < prefix.lines[ps[1] + 1].len + suffix.lines[ps[2] + 1].len + 1
    THEN /\ tpc' = [tpc EXCEPT ![t] = "lock"]
         /\ indices' = [indices EXCEPT ![t] = ps]
         /\ UNCHANGED <<iter, write_buffer, buffer_offset>>
    ELSE CdFormat(t, ps)

\* one test of the loop condition; when the loop goes on: the two draws
\* (random mode), the flush test, and the line when no flush is needed
CdWorkerLoop(t) ==
    /\ prog = "cd"
    /\ Running
    /\ tpc[t] = "loop"
    /\ IF LoopIsOver(t) THEN AfterLoop(t)
       ELSE /\ LoopGoesOn(t)
            /\ IF thread_data[t].mode = MODE_RANDOM
               THEN \E r1 \in Draws, r2 \in Draws :
                       CdTestAndFormat(t,
                           <<fast_map_to_range(r1, prefix.line_count),
                             fast_map_to_range(r2, suffix.line_count)>>)
               ELSE CdTestAndFormat(t, indices[t])
    /\ UNCHANGED <<inputVars, loadVars, main_pc, exit_code, len, batch,
                   next_i, thread_data, mutex, sink>>

\* the line that follows a flush inside the loop
CdWorkerFormat(t) ==
    /\ prog = "cd"
    /\ Running
    /\ tpc[t] = "format"
    /\ CdFormat(t, indices[t])
    /\ UNCHANGED <<inputVars, loadVars, main_pc, exit_code, len, batch,
                   next_i, thread_data, mutex, sink>>

(***************************************************************************)
(* combination_dictionary.c, the single-threaded program                   *)
(***************************************************************************)
\* main up to the call of the generating function
V1MainStart ==
    /\ prog = "cd_v1"
    /\ main_pc = "start"
    /\ IF ~argv.prefix.open \/ ~argv.suffix.open
       THEN /\ Exit(1)
            /\ UNCHANGED <<prefix, suffix, batch>>
       ELSE /\ prefix' = map_file(argv.prefix.data)
            /\ suffix' = map_file(argv.suffix.data)
            /\ IF prefix'.line_count = 0 \/ suffix'.line_count = 0
               THEN Exit(1) /\ UNCHANGED batch
               ELSE /\ main_pc' = "emit"
                    /\ batch' = [p_idx |-> 0, s_idx |-> 0, lines |-> 0]
                    /\ UNCHANGED exit_code
    /\ UNCHANGED <<inputVars, num_threads, words, end_length, len, next_i,
                   thread_data, workerVars, mutex, sink>>

\* size_t generate_random_index(size_t max), for a value of rand() bits
generate_random_index(max, random_val) ==
    IF max = 0 \/ max = 1 THEN 0 ELSE random_val % max

\* the two fwrite and the fputc of one line
V1Line(p_idx, s_idx) ==
    V1LineBytes(prefix, p_idx) \o V1LineBytes(suffix, s_idx) \o <<NL>>

\* generate_sequential_combinations: one iteration of the inner loop, or
\* the return when the outer loop is over
V1Sequential ==
    /\ prog = "cd_v1"
    /\ main_pc = "emit"
    /\ ~argv.random_mode
    /\ IF batch.p_idx < prefix.line_count
       THEN /\ sink' = Append(sink,
                        [by |-> MainThread, len |-> 0, ok |-> TRUE,
                         bytes |-> V1Line(batch.p_idx, batch.s_idx)])
            /\ batch' = IF batch.s_idx + 1 < suffix.line_count
                        THEN [batch EXCEPT !.s_idx = @ + 1,
                                           !.lines = @ + 1]
                        ELSE [batch EXCEPT !.s_idx = 0, !.p_idx = @ + 1,
                                           !.lines = @ + 1]
            /\ UNCHANGED <<main_pc, exit_code>>
       ELSE /\ Exit(0)
            /\ UNCHANGED <<batch, sink>>
    /\ UNCHANGED <<inputVars, loadVars, len, next_i, thread_data, workerVars,
                   mutex>>

\* generate_random_combinations: one iteration of while (1) (the model
\* stops it after InfCap lines)
V1Random ==
    /\ prog = "cd_v1"
    /\ main_pc = "emit"
    /\ argv.random_mode
    /\ batch.lines < InfCap
    /\ \E r1 \in Draws, r2 \in Draws :
          sink' = Append(sink,
              [by |-> MainThread, len |-> 0, ok |-> TRUE,
               bytes |-> V1Line(
                   generate_random_index(prefix.line_count, r1),
                   generate_random_index(suffix.line_count, r2))])
    /\ batch' = [batch EXCEPT !.lines = @ + 1]
    /\ UNCHANGED <<inputVars, loadVars, main_pc, exit_code, len, next_i,
                   thread_data, workerVars, mutex>>

(***************************************************************************)
(* The specification.                                                      *)
(***************************************************************************)
Next ==
    \/ GenMainStart
    \/ GenForLen
    \/ GenSpawn
    \/ GenJoin
    \/ \E t \in Threads : GenWorkerStart(t)
    \/ \E t \in Threads : GenWorkerLoop(t)
    \/ \E t \in Threads : GenWorkerFormat(t)
    \/ \E t \in Threads : GenWorkerSegv(t)
    \/ \E t \in Threads : WorkerLock(t)
    \/ \E t \in Threads : WorkerWrite(t)
    \/ \E t \in Threads : WorkerUnlock(t)
    \/ CdMainStart
    \/ CdSpawn
    \/ CdJoin
    \/ \E t \in Threads : CdWorkerStart(t)
    \/ \E t \in Threads : CdWorkerLoop(t)
    \/ \E t \in Threads : CdWorkerFormat(t)
    \/ V1MainStart
    \/ V1Sequential
    \/ V1Random

Spec == Init /\ [][Next]_vars

(***************************************************************************)
(* Inputs beyond the ones of Spec: files with CRLF line ends for the       *)
(* prefix/suffix programs, and entries so long that a line does not fit    *)
(* the room the flush test leaves in the private buffer.                   *)
(***************************************************************************)
\* the longest token read_dictionary builds: a line of FGETS_SIZE - 1 bytes
LongToken == [i \in 1..(FGETS_SIZE - 1) |-> "a"]

LongDictFile == File(LongToken \o <<NL>>)

CrLfPairFile == File(<<"a", CR, NL, "b", NL>>)

\* one entry of more than half of CD_BUFFER_SIZE bytes
LongPairFile == File([i \in 1..(CD_BUFFER_SIZE \div 2 + 1) |-> "w"] \o <<NL>>)

WideRuns ==
    { [prog |-> "generator",
       argv |-> GenArgv(LongDictFile, <<MAX_WORD_LENGTH, MAX_WORD_LENGTH>>,
                        1, k, MODE_SEQUENTIAL, FALSE, 0)] : k \in BOOLEAN }
    \cup
    { [prog |-> "cd",
       argv |-> [prefix |-> f, suffix |-> g, num_threads |-> 1,
                 random_mode |-> FALSE]] :
      f \in {CrLfPairFile, LongPairFile}, g \in {CrLfPairFile, LongPairFile} }
    \cup
    { [prog |-> "cd_v1",
       argv |-> [prefix |-> f, suffix |-> g, random_mode |-> FALSE]] :
      f \in {CrLfPairFile}, g \in {CrLfPairFile, LongPairFile} }

InitWide == InitFrom(Runs \cup WideRuns)

\* sequential mode of generator.c: the line of worker t does not fit the
\* rest of the buffer, and the store past the end of the malloc'ed block
\* ends the process (the other outcome, the store going through, is the
\* one of GenFormat)
GenWorkerOverrun(t) ==
    /\ prog = "generator"
    /\ Running
    /\ thread_data[t].mode = MODE_SEQUENTIAL
    /\ \/ tpc[t] = "format"
       \/ /\ tpc[t] = "loop"
          /\ LoopGoesOn(t)
          /\ ~(BUFFER_SIZE - buffer_offset[t] < MAX_LINE_SIZE)
    /\ buffer_offset[t]
           + Len(sequential_line(words, indices[t], thread_data[t].noSpaces))
           > BUFFER_SIZE
    /\ main_pc' = "killed"
    /\ exit_code' = 139
    /\ UNCHANGED <<inputVars, loadVars, len, batch, next_i, thread_data,
                   workerVars, mutex, sink>>

\* sequential mode of combination_dictionary.c: the same for the pair of
\* worker t, after the flush that did not make room
CdWorkerOverrun(t) ==
    /\ prog = "cd"
    /\ Running
    /\ thread_data[t].mode = MODE_SEQUENTIAL
    /\ tpc[t] = "format"
    /\ buffer_offset[t] + Len(pair_line(indices[t])) > BUFFER_SIZE
    /\ main_pc' = "killed"
    /\ exit_code' = 139
    /\ UNCHANGED <<inputVars, loadVars, len, batch, next_i, thread_data,
                   workerVars, mutex, sink>>

NextWide ==
    \/ Next
    \/ \E t \in Threads : GenWorkerOverrun(t)
    \/ \E t \in Threads : CdWorkerOverrun(t)

SpecWide == InitWide /\ [][NextWide]_vars

(***************************************************************************)
(* Startup failures: an allocation of main, the opening of the output file *)
(* or pthread_create fails.                                                *)
(***************************************************************************)
\* generator.c: malloc of thread_ids or thread_data fails, or fopen of the
\* file of -o fails: main frees what it holds and returns 1
GenStartupFails ==
    /\ prog = "generator"
    /\ main_pc = "start"
    /\ argv.start_length > 0
    /\ argv.dict.open
    /\ end_length' = IF argv.start_length > argv.end_length
                     THEN argv.start_length ELSE argv.end_length
    /\ num_threads' = IF argv.num_threads <= 0 THEN 1 ELSE argv.num_threads
    /\ words' = read_dictionary(argv.dict.data)
    /\ Exit(1)
    /\ UNCHANGED <<inputVars, prefix, suffix, len, batch, next_i, thread_data,
                   workerVars, mutex, sink>>

\* generator.c: pthread_create of thread next_i fails: goto cleanup, where
\* main closes the output, frees the tables and returns 0 without joining
\* the threads it created before
GenCreateFails ==
    /\ prog = "generator"
    /\ main_pc = "spawn"
    /\ thread_data' = [thread_data EXCEPT ![next_i] = GenThreadData(next_i)]
    /\ Exit(0)
    /\ UNCHANGED <<inputVars, loadVars, len, batch, next_i, workerVars, mutex,
                   sink>>

\* combination_dictionary.c: malloc of thread_ids or thread_data fails:
\* goto cleanup_files, which ends in return 0
CdThreadTableFails ==
    /\ prog = "cd"
    /\ main_pc = "start"
    /\ argv.prefix.open
    /\ argv.suffix.open
    /\ LET p == map_and_index_file(argv.prefix.data)
           s == map_and_index_file(argv.suffix.data)
       IN  /\ ~p.null
           /\ ~s.null
           /\ prefix' = p
           /\ suffix' = s
    /\ num_threads' = IF argv.num_threads <= 0 THEN 1 ELSE argv.num_threads
    /\ Exit(0)
    /\ UNCHANGED <<inputVars, words, end_length, len, batch, next_i,
                   thread_data, workerVars, mutex, sink>>

\* combination_dictionary.c: pthread_create of thread next_i fails: goto
\* cleanup_threads, which ends in return 0 without joining
CdCreateFails ==
    /\ prog = "cd"
    /\ main_pc = "spawn"
    /\ thread_data' = [thread_data EXCEPT ![next_i] = CdThreadData(next_i)]
    /\ Exit(0)
    /\ UNCHANGED <<inputVars, loadVars, len, batch, next_i, workerVars, mutex,
                   sink>>

NextStartupFaults ==
    \/ Next
    \/ GenStartupFails
    \/ GenCreateFails
    \/ CdThreadTableFails
    \/ CdCreateFails

SpecStartupFaults == Init /\ [][NextStartupFaults]_vars

(***************************************************************************)
(* A worker whose malloc of the private buffer fails.                      *)
(***************************************************************************)
\* if (!write_buffer) return NULL; the thread ends before its loop and
\* pthread_join of main returns for it as for any other thread
WorkerAllocFails(t) ==
    /\ prog \in {"generator", "cd"}
    /\ Running
    /\ tpc[t] = "start"
    /\ tpc' = [tpc EXCEPT ![t] = "done"]
    /\ UNCHANGED <<inputVars, loadVars, main_pc, exit_code, len, batch,
                   next_i, thread_data, iter, indices, write_buffer,
                   buffer_offset, mutex, sink>>

NextAllocFaults ==
    \/ Next
    \/ \E t \in Threads : WorkerAllocFails(t)

SpecAllocFaults == Init /\ [][NextAllocFaults]_vars

(***************************************************************************)
(* A sink that stops accepting bytes (disk full, I/O error).               *)
(***************************************************************************)
\* fwrite returns less than buffer_offset: the sink took k of the bytes.
\* Neither worker looks at the value fwrite returns, so the worker goes on
\* as after a complete write
WorkerWriteFails(t) ==
    /\ prog \in {"generator", "cd"}
    /\ Running
    /\ tpc[t] \in {"write", "write_end"}
    /\ buffer_offset[t] > 0
    /\ \E k \in {0, buffer_offset[t] - 1} :
          sink' = Append(sink, [by |-> t, len |-> LengthOf(t), ok |-> FALSE,
                                bytes |-> SubSeq(write_buffer[t], 1, k)])
    /\ tpc' = [tpc EXCEPT ![t] = IF @ = "write" THEN "unlock"
                                 ELSE "unlock_end"]
    /\ UNCHANGED <<inputVars, loadVars, main_pc, exit_code, len, batch,
                   next_i, thread_data, iter, indices, write_buffer,
                   buffer_offset, mutex>>

NextWriteFaults ==
    \/ Next
    \/ \E t \in Threads : WorkerWriteFails(t)

SpecWriteFaults == Init /\ [][NextWriteFaults]_vars

(***************************************************************************)
(* The seeds of the random workers.  A worker seeds its own generator, a   *)
(* local variable, from what the platform answers when it starts:          *)
(*   generator.c               time(NULL) ^ pthread_self() ^ (uintptr_t)data *)
(*   combination_dictionary.c  time(NULL) ^ pthread_self()                 *)
(* The answers are values of SeedBits bits.  The threads of a batch exist  *)
(* together until main joins them, so their identities differ; the records *)
(* thread_data[i] are the elements of one array, so their addresses        *)
(* differ; the clock counts seconds and two workers may start in the same  *)
(* second or in two.                                                       *)
(***************************************************************************)
SeedBits == 2

BitXor(a, b) == a + b - 2 * BitAnd(a, b)

\* &thread_data[i], in units of the size of a record
AddressOf(i) == (env.thread_data + i) % Pow(2, SeedBits)

\* the seed worker i passes to xoshiro_seed
seed(i) ==
    IF prog = "generator"
    THEN BitXor(BitXor(env.time[i], env.self[i]), AddressOf(i))
    ELSE BitXor(env.time[i], env.self[i])

Platforms ==
    { [time |-> c, self |-> id, thread_data |-> a] :
        c \in [Threads -> 0..1],
        id \in { f \in [Threads -> 0..(Pow(2, SeedBits) - 1)] :
                   \A i, j \in Threads : i # j => f[i] # f[j] },
        a \in 0..1 }

\* random runs in which every thread gets a share
SeedRuns ==
    { [prog |-> "generator",
       argv |-> GenArgv(File(<<"a", NL, "b", "c">>), <<1, 1>>, MaxThreads,
                        FALSE, MODE_RANDOM, TRUE, MaxItems)],
      [prog |-> "cd",
       argv |-> [prefix |-> File(<<"x", NL>>), suffix |-> File(<<"x", NL>>),
                 num_threads |-> MaxThreads, random_mode |-> TRUE]] }

InitSeeds == Init \/ InitOn(SeedRuns, Platforms)

SpecSeeds == InitSeeds /\ [][Next]_vars

(***************************************************************************)
(* Fair scheduling: main and every worker are threads of their own, and a  *)
(* thread that can take a step, and stays able to, takes one.  A worker    *)
(* that waits for the mutex is not promised it while others keep taking    *)
(* it: the fairness is weak.                                               *)
(***************************************************************************)
MainStep ==
    \/ GenMainStart \/ GenForLen \/ GenSpawn \/ GenJoin
    \/ CdMainStart \/ CdSpawn \/ CdJoin
    \/ V1MainStart \/ V1Sequential \/ V1Random

WorkerStep(t) ==
    \/ GenWorkerStart(t) \/ GenWorkerLoop(t) \/ GenWorkerFormat(t)
    \/ GenWorkerSegv(t)
    \/ CdWorkerStart(t) \/ CdWorkerLoop(t) \/ CdWorkerFormat(t)
    \/ WorkerLock(t) \/ WorkerWrite(t) \/ WorkerUnlock(t)

SpecFair ==
    /\ Init
    /\ [][Next]_vars
    /\ WF_vars(MainStep)
    /\ \A t \in Threads : WF_vars(WorkerStep(t))

(***************************************************************************)
(* What the properties below read off a state.                             *)
(***************************************************************************)
Max(a, b) == IF a < b THEN b ELSE a

\* the pieces of a byte sequence that end at a newline (the newline
\* included), and the unterminated rest when there is one
RECURSIVE SplitLines(_)
SplitLines(bytes) ==
    IF Len(bytes) = 0 THEN <<>>
    ELSE LET nl == FindFirst(bytes, 1, {NL})
         IN  IF nl > Len(bytes) THEN <<bytes>>
             ELSE <<SubSeq(bytes, 1, nl)>>
                  \o SplitLines(SubSeq(bytes, nl + 1, Len(bytes)))

\* the bytes the sink received from the workers of length L, in order
SinkBytes(L) ==
    Flatten([i \in 1..Len(sink) |->
                IF sink[i].len = L THEN sink[i].bytes ELSE <<>>])

SinkLines(L) == SplitLines(SinkBytes(L))

\* the bytes worker t wrote to the sink for length L, in order
WorkerBytes(t, L) ==
    Flatten([i \in 1..Len(sink) |->
                IF sink[i].len = L /\ sink[i].by = t THEN sink[i].bytes
                ELSE <<>>])

Count(seq, x) == Cardinality({i \in DOMAIN seq : seq[i] = x})

RemoveSP(bytes) == SelectSeq(bytes, LAMBDA b : b # SP)

\* the index tuples of length L over a dictionary of n entries
Tuples(n, L) == [1..L -> 0..(n - 1)]

\* the base-n digits of a linear index, most significant position first
Digits(index, L, n) == [k \in 1..L |-> (index \div Pow(n, L - k)) % n]

\* the tokens of a tuple with sep between consecutive tokens
RECURSIVE TupleBytes(_, _, _)
TupleBytes(dict, tup, sep) ==
    IF Len(tup) = 0 THEN <<>>
    ELSE IF Len(tup) = 1 THEN dict[tup[1] + 1]
    ELSE dict[tup[1] + 1] \o sep
         \o TupleBytes(dict, [k \in 1..(Len(tup) - 1) |-> tup[k + 1]], sep)

\* the line of a tuple: its tokens, one space between two of them unless
\* noSpaces, and a newline
TupleLine(dict, tup, noSpaces) ==
    TupleBytes(dict, tup, IF noSpaces THEN <<>> ELSE <<SP>>) \o <<NL>>

\* the entries of a prefix or suffix file: what lies between the newlines,
\* and after the last one when the file does not end with a newline
Entries(data) ==
    LET pieces == SplitLines(data)
    IN  [i \in 1..Len(pieces) |->
            SelectSeq(pieces[i], LAMBDA b : b # NL)]

PairBytes(P, S, q) == P[q[1]] \o S[q[2]] \o <<NL>>

\* the number of workers the command line asks for
Configured == IF argv.num_threads <= 0 THEN 1 ELSE argv.num_threads

GenSequentialRun == prog = "generator" /\ argv.mode = MODE_SEQUENTIAL
GenRandomRun == prog = "generator" /\ argv.mode = MODE_RANDOM
CdSequentialRun == prog = "cd" /\ ~argv.random_mode

\* length L is one of the requested lengths and all its workers are joined
\* (or it was skipped): main's loop is past it
Joined(L) ==
    /\ prog = "generator"
    /\ main_pc \in {"for_len", "exit"}
    /\ L >= Min(argv.start_length, argv.end_length)
    /\ L <= Max(argv.start_length, argv.end_length)
    /\ L < len

\* main is creating or joining the workers of a batch
InBatch == prog \in {"generator", "cd"} /\ main_pc \in {"spawn", "join"}

SequentialBatch == InBatch /\ (GenSequentialRun \/ CdSequentialRun)

\* the workers whose thread_data main has filled in
Assigned ==
    IF main_pc = "spawn" THEN 0..(next_i - 1) ELSE 0..(Configured - 1)

StartOf(i) == IF prog = "generator" THEN thread_data[i].startIndex
              ELSE thread_data[i].start_index

RangeOf(i) == StartOf(i)..(StartOf(i) + thread_data[i].count - 1)

RECURSIVE SumCounts(_)
SumCounts(i) ==
    IF i = 0 THEN 0 ELSE SumCounts(i - 1) + thread_data[i - 1].count

\* the sink holds, for length L, every tuple of the cartesian power once
\* and nothing else
ExactPower(L) ==
    LET n == Len(words)
        lines == SinkLines(L)
        Line(tup) == TupleLine(words, tup, argv.no_spaces)
    IN  /\ Len(lines) = Pow(n, L)
        /\ \A tup \in Tuples(n, L) :
              Count(lines, Line(tup))
                  = Cardinality({u \in Tuples(n, L) : Line(u) = Line(tup)})

(***************************************************************************)
(* C1 (as stated).  Sequential single-dictionary generation: for every     *)
(* dictionary of n >= 1 tokens, every length L >= 1 for which n^L does not *)
(* overflow the u128 type and every thread count, once the workers of L    *)
(* are joined the sink holds exactly n^L lines of L tokens, every tuple of *)
(* {0..n-1}^L exactly once.                                                *)
(***************************************************************************)
C1_FullPowerForEveryLength ==
    GenSequentialRun =>
        \A L \in 1..MaxLen :
            (Joined(L) /\ Len(words) >= 1 /\ Pow(Len(words), L) < U128_LIMIT)
                => ExactPower(L)

(***************************************************************************)
(* C1 (amended).  The same for every length 1 <= L <= MAX_WORD_LENGTH; a   *)
(* requested length above MAX_WORD_LENGTH is skipped and adds no line.     *)
(***************************************************************************)
C1_FullPowerUpToMaxWordLength ==
    GenSequentialRun =>
        \A L \in 1..MaxLen :
            (Joined(L) /\ Len(words) >= 1 /\ Pow(Len(words), L) < U128_LIMIT)
                => IF L <= MAX_WORD_LENGTH THEN ExactPower(L)
                   ELSE Len(SinkBytes(L)) = 0

\* two workers have been joined after a length of at least two tokens over
\* at least two words, and its lines are in the sink
C1_Witness ==
    /\ GenSequentialRun
    /\ main_pc = "exit"
    /\ exit_code = 0
    /\ num_threads >= 2
    /\ Len(words) >= 2
    /\ \E L \in 2..MAX_WORD_LENGTH :
          Joined(L) /\ Len(SinkLines(L)) = Pow(Len(words), L)

(***************************************************************************)
(* C2.  Sequential prefix/suffix generation (threaded and single-threaded  *)
(* program): for prefix and suffix files of p >= 1 and s >= 1 entries and  *)
(* every thread count, the run is accepted and at its end the output holds *)
(* exactly p*s lines, each a prefix entry followed by a suffix entry with  *)
(* no separator, every (prefix index, suffix index) pair exactly once.     *)
(***************************************************************************)
C2_EveryPairOnce ==
    (prog \in {"cd", "cd_v1"} /\ ~argv.random_mode /\ main_pc = "exit"
        /\ argv.prefix.open /\ argv.suffix.open)
        => LET P == Entries(argv.prefix.data)
               S == Entries(argv.suffix.data)
               Pairs == (1..Len(P)) \X (1..Len(S))
               lines == SinkLines(0)
           IN  (Len(P) >= 1 /\ Len(S) >= 1)
                   => /\ exit_code = 0
                      /\ Len(lines) = Len(P) * Len(S)
                      /\ \A q \in Pairs :
                            Count(lines, PairBytes(P, S, q))
                                = Cardinality({r \in Pairs :
                                      PairBytes(P, S, r) = PairBytes(P, S, q)})

\* the threaded program has ended a sequential run of several workers over
\* at least two prefixes and two suffixes
C2_Witness ==
    /\ CdSequentialRun
    /\ main_pc = "exit"
    /\ exit_code = 0
    /\ num_threads >= 2
    /\ prefix.line_count >= 2
    /\ suffix.line_count >= 2
    /\ Len(SinkLines(0)) = prefix.line_count * suffix.line_count

\* the lines (as a set) one worker emits from the odometer state ind on
RECURSIVE OneWorkerLines(_, _)
OneWorkerLines(ind, count) ==
    IF count = 0 THEN {}
    ELSE {sequential_line(words, ind, argv.no_spaces)}
         \cup OneWorkerLines(odometer(ind, len - 1, Len(words)), count - 1)

\* the lines one worker emits from the pair ps on
RECURSIVE OneWorkerPairs(_, _)
OneWorkerPairs(ps, count) ==
    IF count = 0 THEN {}
    ELSE {pair_line(ps)}
         \cup OneWorkerPairs(pair_next(ps, suffix.line_count), count - 1)

SetOf(seq) == {seq[i] : i \in DOMAIN seq}

(***************************************************************************)
(* C3.  The set of lines a sequential run writes does not depend on the    *)
(* thread count: when the workers of a batch are joined, the set of the    *)
(* lines in the sink is the set a single worker with the range [0, total)  *)
(* writes, whatever the number of workers and their interleaving (single   *)
(* dictionary: per length; prefix/suffix: the whole run).                  *)
(***************************************************************************)
C3_SetIndependentOfThreads ==
    /\ (GenSequentialRun /\ main_pc = "for_len" /\ len > 0
            /\ Joined(len - 1) /\ len - 1 <= MAX_WORD_LENGTH
            /\ int_pow128(Len(words), len - 1) # 0)
           => SetOf(SinkLines(len - 1))
                  = OneWorkerLines([k \in 1..(len - 1) |-> 0],
                                   int_pow128(Len(words), len - 1))
    /\ (CdSequentialRun /\ main_pc = "exit" /\ exit_code = 0)
           => SetOf(SinkLines(0))
                  = OneWorkerPairs(<<0, 0>>,
                                   prefix.line_count * suffix.line_count)

\* several workers with ranges of different sizes have been joined
C3_Witness ==
    /\ GenSequentialRun
    /\ main_pc = "for_len"
    /\ len > 1
    /\ Joined(len - 1)
    /\ num_threads >= 2
    /\ Len(SinkLines(len - 1)) >= 3
    /\ Len(SinkLines(len - 1)) % num_threads # 0

(***************************************************************************)
(* C4.  In every sequential batch that is not skipped, for every thread    *)
(* argument (a value <= 0 acting as 1), the ranges [start_i, start_i +     *)
(* count_i) of the workers are pairwise disjoint and contiguous in worker  *)
(* order (start_0 = 0, start_{i+1} = start_i + count_i), and once all are  *)
(* assigned their union is [0, total).                                     *)
(***************************************************************************)
C4_RangesTileTheIndexSpace ==
    SequentialBatch =>
        /\ \A i \in Assigned :
              /\ (i = 0) => (StartOf(i) = 0)
              /\ (i + 1 \in Assigned)
                     => (StartOf(i + 1) = StartOf(i) + thread_data[i].count)
        /\ \A i, j \in Assigned :
              (i # j) => (RangeOf(i) \cap RangeOf(j) = {})
        /\ (main_pc = "join")
               => /\ num_threads = Configured
                  /\ UNION {RangeOf(i) : i \in Assigned}
                         = 0..(batch.total_combinations - 1)

\* all workers of a sequential batch are created, more than one, with a
\* total the thread count does not divide
C4_Witness ==
    /\ SequentialBatch
    /\ main_pc = "join"
    /\ num_threads >= 2
    /\ batch.total_combinations > num_threads
    /\ batch.total_combinations % num_threads # 0

(***************************************************************************)
(* C5.  Worker i of N gets count = floor(total/N) + 1 when i < total mod N *)
(* and floor(total/N) otherwise; so the counts sum to total, two counts    *)
(* differ by at most 1 with the larger ones on the lowest-numbered         *)
(* workers, and a worker with an empty range (every i >= total when        *)
(* total < N) writes nothing.                                              *)
(***************************************************************************)
C5_CountsAreBalanced ==
    InBatch =>
        LET total == batch.total_combinations
            N == Configured
        IN  /\ \A i \in Assigned :
                  thread_data[i].count
                      = (total \div N) + (IF i < total % N THEN 1 ELSE 0)
            /\ \A i, j \in Assigned :
                  (i < j) => /\ thread_data[i].count >= thread_data[j].count
                             /\ thread_data[i].count
                                    <= thread_data[j].count + 1
            /\ (main_pc = "join")
                   => /\ SumCounts(N) = total
                      /\ \A i \in Assigned :
                            (i >= total /\ ~thread_data[i].infinite)
                                => /\ thread_data[i].count = 0
                                   /\ tpc[i] \in {"start", "loop", "done",
                                                  "none"}
                                   /\ (tpc[i] # "start")
                                          => (buffer_offset[i] = 0)
                                   /\ Len(WorkerBytes(i, len)) = 0

\* fewer combinations than workers: a worker with an empty range is done
\* while another one has a line to write
C5_Witness ==
    /\ InBatch
    /\ main_pc = "join"
    /\ batch.total_combinations >= 1
    /\ batch.total_combinations < num_threads
    /\ tpc[num_threads - 1] = "done"
    /\ thread_data[num_threads - 1].count = 0
    /\ thread_data[0].count = 1

\* the lines of the whole sink, whatever their length
AllSinkLines == SplitLines(Flatten([i \in 1..Len(sink) |-> sink[i].bytes]))

\* the per-worker targets of a bounded random batch: k div N, plus one for
\* the first k mod N workers
TargetsOfBoundedRandom ==
    InBatch =>
        \A i \in Assigned :
            thread_data[i].count
                = (argv.num_to_generate \div Configured)
                  + (IF i < argv.num_to_generate % Configured THEN 1 ELSE 0)

(***************************************************************************)
(* C6 (as stated).  A random-mode run of the single-dictionary generator   *)
(* (on a dictionary of at least one token) with an item count k writes     *)
(* exactly k lines, for every thread count and every requested length      *)
(* specification; the per-worker targets are k div N, plus one for the     *)
(* first k mod N workers.                                                  *)
(***************************************************************************)
C6_ExactlyKLinesPerRun ==
    (GenRandomRun /\ argv.n_specified /\ Len(words) >= 1) =>
        /\ TargetsOfBoundedRandom
        /\ (main_pc = "exit" /\ exit_code = 0)
               => (Len(AllSinkLines) = argv.num_to_generate)

(***************************************************************************)
(* C6 (amended).  The run writes exactly k lines for each requested length *)
(* that does not exceed MAX_WORD_LENGTH, and none for a longer one: k      *)
(* lines in all for a single length L <= MAX_WORD_LENGTH, k lines per      *)
(* length for a range; the per-worker targets of each length are k div N,  *)
(* plus one for the first k mod N workers.                                 *)
(***************************************************************************)
C6_ExactlyKLinesPerLength ==
    (GenRandomRun /\ argv.n_specified /\ Len(words) >= 1) =>
        /\ TargetsOfBoundedRandom
        /\ \A L \in 0..MaxLen :
              Joined(L)
                  => /\ Len(SinkLines(L))
                            = (IF L <= MAX_WORD_LENGTH
                               THEN argv.num_to_generate ELSE 0)
                     /\ Count(SinkBytes(L), NL) = Len(SinkLines(L))

\* a bounded random run of several workers has ended with k lines of one
\* token, k not a multiple of the thread count
C6_Witness ==
    /\ GenRandomRun
    /\ argv.n_specified
    /\ main_pc = "exit"
    /\ exit_code = 0
    /\ num_threads >= 2
    /\ Len(words) >= 2
    /\ argv.num_to_generate % num_threads # 0
    /\ Joined(1)
    /\ Len(SinkLines(1)) = argv.num_to_generate

\* the dictionary file (one of the two files, for the prefix/suffix
\* programs) can be read and yields no token
ZeroTokens ==
    IF prog = "generator"
    THEN /\ argv.dict.open
         /\ \A i \in DOMAIN argv.dict.data : argv.dict.data[i] \in {CR, NL}
    ELSE \/ argv.prefix.open /\ Len(argv.prefix.data) = 0
         \/ argv.suffix.open /\ Len(argv.suffix.data) = 0

(***************************************************************************)
(* C7.  When a dictionary file yields zero tokens the process exits with a *)
(* non-zero code and writes no output line, in sequential and in random    *)
(* mode and in every program; no worker is ever started on a dictionary of *)
(* zero entries.                                                           *)
(***************************************************************************)
C7_ZeroTokensIsFatal ==
    ZeroTokens =>
        /\ \A t \in Threads : tpc[t] = "none"
        /\ Len(sink) = 0
        /\ (main_pc = "exit") => (exit_code # 0)

(***************************************************************************)
(* C8.  In sequential mode the total of length L is n^L exactly when n^L   *)
(* fits the u128 type and 0 when the multiplication overflows; on overflow *)
(* no line of that length is written and no error is raised (the run ends  *)
(* with code 0), and the other lengths of the range are still generated.   *)
(***************************************************************************)
C8_TotalIsExactOrZero ==
    GenSequentialRun =>
        LET n == Len(words)
            Fits(L) == Pow(n, L) < U128_LIMIT
        IN  /\ (main_pc # "start")
                   => \A L \in 0..MaxLen :
                         int_pow128(n, L)
                             = (IF Fits(L) THEN Pow(n, L) ELSE 0)
            /\ InBatch
                   => /\ Fits(len)
                      /\ batch.total_combinations = Pow(n, len)
            /\ \A L \in 1..MaxLen :
                  (Joined(L) /\ n >= 1)
                      => /\ (~Fits(L)) => (Len(SinkBytes(L)) = 0)
                         /\ (Fits(L) /\ L <= MAX_WORD_LENGTH)
                                => (Len(SinkLines(L)) = Pow(n, L))
            /\ (main_pc = "exit" /\ argv.dict.open /\ argv.start_length > 0)
                   => (exit_code = 0)

\* a range whose first length is generated in full and whose second length,
\* within MAX_WORD_LENGTH, overflows and leaves no line
C8_Witness ==
    /\ GenSequentialRun
    /\ main_pc = "exit"
    /\ exit_code = 0
    /\ \E L \in 1..(MAX_WORD_LENGTH - 1) :
          /\ Joined(L)
          /\ Joined(L + 1)
          /\ Pow(Len(words), L) < U128_LIMIT
          /\ Len(SinkLines(L)) = Pow(Len(words), L)
          /\ Pow(Len(words), L + 1) >= U128_LIMIT
          /\ Len(SinkBytes(L + 1)) = 0

(***************************************************************************)
(* C9.  Every line the single-dictionary generator writes, in sequential   *)
(* and in random mode, is the bytes of L dictionary tokens in position     *)
(* order, with exactly one space between consecutive tokens when the       *)
(* no-separator option is off and none when it is on, no space after the   *)
(* last token, and exactly one newline at the end; every line of the       *)
(* prefix/suffix programs is a prefix entry, a suffix entry and a newline  *)
(* with nothing between them.                                              *)
(***************************************************************************)
C9_LineFormat ==
    /\ (prog = "generator" /\ Len(words) >= 1)
           => \A L \in 0..MaxLen :
                 LET lines == SinkLines(L)
                 IN  \A i \in DOMAIN lines :
                        \E tup \in Tuples(Len(words), L) :
                            lines[i] = TupleLine(words, tup, argv.no_spaces)
    /\ (prog \in {"cd", "cd_v1"} /\ Len(sink) > 0)
           => LET P == Entries(argv.prefix.data)
                  S == Entries(argv.suffix.data)
                  lines == SinkLines(0)
              IN  \A i \in DOMAIN lines :
                     \E q \in (1..Len(P)) \X (1..Len(S)) :
                         lines[i] = PairBytes(P, S, q)

\* a random line of at least two tokens, with separators, is in the sink
C9_Witness ==
    /\ GenRandomRun
    /\ ~argv.no_spaces
    /\ Len(words) >= 2
    /\ \E L \in 2..MaxLen :
          /\ Len(SinkLines(L)) >= 1
          /\ Count(SinkLines(L)[1], SP) = L - 1

\* worker t of the current batch has written all it writes
Finished(t) == tpc[t] = "done" \/ (tpc[t] = "none" /\ t < next_i)

(***************************************************************************)
(* C10.  Toggling the no-separator option changes only the spaces between  *)
(* tokens: in a sequential run with the option and in the run without it,  *)
(* worker t writes the lines of the same index tuples (the digits of       *)
(* startIndex, startIndex + 1, ...) with the same token bytes in the same  *)
(* order and the same number of lines; with the spaces taken out the two   *)
(* outputs are the same bytes, and the output has L - 1 spaces per line    *)
(* without the option and none with it.                                    *)
(***************************************************************************)
C10_OnlySpacesDiffer ==
    (GenSequentialRun /\ main_pc = "join" /\ Len(words) >= 1) =>
        \A t \in Assigned :
            Finished(t) =>
                LET d == thread_data[t]
                    canonical ==
                        Flatten([j \in 1..d.count |->
                            TupleLine(words,
                                      Digits(d.startIndex + j - 1, len,
                                             Len(words)),
                                      TRUE)])
                    out == WorkerBytes(t, len)
                IN  /\ RemoveSP(out) = RemoveSP(canonical)
                    /\ Count(out, NL) = d.count
                    /\ Count(out, SP)
                           = Count(canonical, SP)
                             + (IF argv.no_spaces THEN 0
                                ELSE d.count * Max(len - 1, 0))

\* a worker has written several lines of at least two tokens with the
\* option on
C10_Witness ==
    /\ GenSequentialRun
    /\ main_pc = "join"
    /\ argv.no_spaces
    /\ len >= 2
    /\ Len(words) >= 2
    /\ \E t \in Assigned :
          /\ tpc[t] = "done"
          /\ thread_data[t].count >= 2
          /\ Count(WorkerBytes(t, len), NL) = thread_data[t].count

\* the lines of a file: what lies between the newlines (and after the last
\* one when the file does not end with a newline), without the \r that
\* precedes a newline or the end of the file
StrippedLines(data) ==
    LET E == Entries(data)
        Strip(e) == IF Len(e) > 0 /\ e[Len(e)] = CR
                    THEN SubSeq(e, 1, Len(e) - 1) ELSE e
    IN  [i \in 1..Len(E) |-> Strip(E[i])]

\* the entries a loader of the prefix/suffix programs built
EntriesOf(mf) ==
    [i \in 1..mf.line_count |->
        IF prog = "cd" THEN LineBytes(mf, i - 1) ELSE V1LineBytes(mf, i - 1)]

NoTerminator(e) == \A k \in DOMAIN e : e[k] \notin {CR, NL}

(***************************************************************************)
(* C11.  The dictionary a loader builds is the sequence of the lines of    *)
(* the file, in file order, each without its terminator (\n or \r\n), the  *)
(* last line being an entry also when no newline ends it; no entry holds a *)
(* \r or \n byte.  For read_dictionary (over the lines that hold a token)  *)
(* and for the indexers of both prefix/suffix programs.                    *)
(***************************************************************************)
C11_EntriesAreStrippedLines ==
    /\ (prog = "generator" /\ main_pc \notin {"start", "exit"})
           => /\ words = SelectSeq(StrippedLines(argv.dict.data),
                                   LAMBDA e : Len(e) > 0)
              /\ \A i \in DOMAIN words : NoTerminator(words[i])
    /\ (prog \in {"cd", "cd_v1"} /\ main_pc \in {"spawn", "join", "emit"})
           => /\ EntriesOf(prefix) = StrippedLines(argv.prefix.data)
              /\ EntriesOf(suffix) = StrippedLines(argv.suffix.data)
              /\ \A i \in 1..prefix.line_count :
                    NoTerminator(EntriesOf(prefix)[i])
              /\ \A i \in 1..suffix.line_count :
                    NoTerminator(EntriesOf(suffix)[i])

\* main returned from its last statement with all the work done: the loop
\* over the lengths ran to its end, or every pair was written
CompletedNormally ==
    /\ next_i = 0
    /\ \A t \in Threads : tpc[t] = "none"
    /\ prog = "generator" => len > end_length
    /\ prog = "cd" => /\ ~argv.random_mode
                      /\ ~prefix.null
                      /\ ~suffix.null
                      /\ Len(SinkLines(0))
                             = prefix.line_count * suffix.line_count

(***************************************************************************)
(* C12.  The process ends with code 0 only after a normal completion:      *)
(* every startup failure (a file that cannot be read, a thread table that  *)
(* cannot be allocated, a worker thread that cannot be created, an output  *)
(* file that cannot be opened) ends it with a non-zero code, in the        *)
(* generator and in the threaded prefix/suffix program.                    *)
(***************************************************************************)
C12_ExitZeroOnlyOnCompletion ==
    (prog \in {"generator", "cd"} /\ main_pc = "exit" /\ exit_code = 0)
        => CompletedNormally

(***************************************************************************)
(* C13.  A worker that cannot allocate its private buffer is fatal to the  *)
(* run: the process never ends with code 0 while the lines of the range of *)
(* one of its workers are missing from the sink (here: of the workers of   *)
(* the last batch main created).                                           *)
(***************************************************************************)
C13_NoRangeSilentlyMissing ==
    (prog \in {"generator", "cd"} /\ main_pc = "exit" /\ exit_code = 0)
        => \A t \in Threads :
              (t < num_threads /\ thread_data[t].count > 0)
                  => Len(SplitLines(WorkerBytes(t, LengthOf(t))))
                         = thread_data[t].count

\* a write of the running worker t has failed
WriteFailed(t) ==
    /\ tpc[t] \notin {"none", "start", "done"}
    /\ \E i \in DOMAIN sink :
          sink[i].by = t /\ sink[i].len = LengthOf(t) /\ ~sink[i].ok

\* the number of fwrite calls of worker t the sink has seen
WritesBy(t) == Cardinality({i \in DOMAIN sink : sink[i].by = t})

(***************************************************************************)
(* C14.  After a write of its flush has failed, a worker leaves its loop:  *)
(* it formats no further line and calls fwrite no more, in every mode.     *)
(***************************************************************************)
C14_NoWorkAfterFailedWrite ==
    [][\A t \in Threads :
          WriteFailed(t) => /\ iter'[t] = iter[t]
                            /\ WritesBy(t)' = WritesBy(t)]_vars

(***************************************************************************)
(* C15.  For a range of lengths the generator works on one length at a     *)
(* time, in ascending order: every worker that is not joined belongs to    *)
(* the length main is at, main starts a length (and creates its first      *)
(* worker) only when every worker of the lengths before is joined, and in  *)
(* the sink no line of a length follows a line of a greater length.        *)
(***************************************************************************)
C15_OneLengthAtATime ==
    prog = "generator" =>
        /\ \A t \in Threads : tpc[t] # "none" => thread_data[t].length = len
        /\ (main_pc = "for_len" \/ (main_pc = "spawn" /\ next_i = 0))
               => \A t \in Threads : tpc[t] = "none"
        /\ \A i \in DOMAIN sink :
              /\ sink[i].len <= len
              /\ i > 1 => sink[i - 1].len <= sink[i].len

\* a run of two workers has ended with lines of two lengths in the sink
C15_Witness ==
    /\ prog = "generator"
    /\ main_pc = "exit"
    /\ num_threads > 1
    /\ \E i, j \in DOMAIN sink :
          sink[i].len < sink[j].len /\ sink[i].by # sink[j].by

\* worker t stands between its pthread_mutex_lock and its
\* pthread_mutex_unlock
InFlush(t) == tpc[t] \in {"write", "unlock", "write_end", "unlock_end"}

(***************************************************************************)
(* C16.  Writes to the sink are mutually exclusive: at most one worker is  *)
(* inside a flush, the worker inside a flush holds the one mutex of the    *)
(* run, and the mutex is held only there: a worker that formats a line,    *)
(* tests its loop or has returned does not hold it.                        *)
(***************************************************************************)
C16_WritesUnderTheMutex ==
    prog \in {"generator", "cd"} =>
        /\ \A t, u \in Threads : (InFlush(t) /\ InFlush(u)) => t = u
        /\ \A t \in Threads : InFlush(t) => (mutex.locked /\ mutex.owner = t)
        /\ mutex.locked => InFlush(mutex.owner)

\* one worker is about to call fwrite while the other waits for the mutex
C16_Witness ==
    /\ prog \in {"generator", "cd"}
    /\ \E t, u \in Threads :
          /\ tpc[t] \in {"write", "write_end"}
          /\ tpc[u] \in {"lock", "lock_end"}
          /\ mutex.owner = t

(***************************************************************************)
(* C17.  The private buffer is flushed before any line that would not fit  *)
(* it: the offset of a worker never exceeds the capacity of its buffer,    *)
(* whatever the lengths of the tokens and of the tuple.                    *)
(***************************************************************************)
C17_OffsetWithinCapacity ==
    prog \in {"generator", "cd"} =>
        \A t \in Threads : buffer_offset[t] <= BUFFER_SIZE

\* the bytes of the buffer of worker t that no fwrite has handed over yet
Pending(t) ==
    IF tpc[t] \in {"none", "start", "unlock", "unlock_end", "done"} THEN <<>>
    ELSE SubSeq(write_buffer[t], 1, buffer_offset[t])

\* what worker t has written so far, followed by what it still buffers
Emitted(t) == WorkerBytes(t, LengthOf(t)) \o Pending(t)

\* line j (from 1) of the range of the sequential worker t
RangeLine(t, j) ==
    IF prog = "generator"
    THEN TupleLine(words,
                   Digits(thread_data[t].startIndex + j - 1,
                          thread_data[t].length, Len(words)),
                   thread_data[t].noSpaces)
    ELSE LET q == thread_data[t].start_index + j - 1
         IN  PairBytes(Entries(prefix.data), Entries(suffix.data),
                       <<(q \div suffix.line_count) + 1,
                         (q % suffix.line_count) + 1>>)

(***************************************************************************)
(* C18.  No line is lost or written twice by the buffering: what a worker  *)
(* has written to the sink, followed by what its buffer still holds, is    *)
(* the concatenation in generation order of the lines it has formatted     *)
(* (sequential mode: the lines of its range; random mode: as many whole    *)
(* lines as it formatted), and a worker that has returned buffers nothing, *)
(* so that its writes are all its lines, each once.                        *)
(***************************************************************************)
C18_WrittenIsFormatted ==
    prog \in {"generator", "cd"} =>
        \A t \in Threads :
            (t < num_threads /\ tpc[t] \notin {"none", "start"}) =>
                LET out == Emitted(t)
                IN  IF thread_data[t].mode = MODE_SEQUENTIAL
                    THEN out = Flatten([j \in 1..iter[t] |-> RangeLine(t, j)])
                    ELSE /\ Len(SplitLines(out)) = iter[t]
                         /\ Len(out) > 0 => out[Len(out)] = NL

\* a worker has returned after a flush inside its loop and the final one
C18_Witness ==
    /\ prog \in {"generator", "cd"}
    /\ \E t \in Threads :
          /\ tpc[t] = "done"
          /\ thread_data[t].mode = MODE_SEQUENTIAL
          /\ Cardinality({i \in DOMAIN sink :
                             sink[i].by = t /\ sink[i].len = LengthOf(t)}) >= 2

\* a run in random mode without a bound on the number of lines
UnboundedRun ==
    \/ prog = "generator" /\ argv.mode = MODE_RANDOM /\ ~argv.n_specified
    \/ prog \in {"cd", "cd_v1"} /\ argv.random_mode

C21_InvalidLengthIsFatal ==
    (prog = "generator" /\ argv.dict.open
         /\ Len(read_dictionary(argv.dict.data)) >= 1) =>
        /\ (argv.start_length <= 0 \/ argv.end_length <= 0)
               => /\ sink = <<>>
                  /\ \A t \in Threads : tpc[t] = "none"
                  /\ main_pc = "exit" => exit_code # 0
        /\ \A t \in Threads : tpc[t] # "none" => thread_data[t].length >= 1
        /\ \A i \in DOMAIN sink : sink[i].len >= 1

\* the fields of a ThreadData that the decomposition reads, for start index
\* s, length L and a dictionary of n entries
DataFor(n, L, s) ==
    [startIndex |-> s, length |-> L, numWords |-> n,
     is_power_of_two |-> is_power_of_two(n),
     shift_bits |-> IF is_power_of_two(n) THEN log2(n) ELSE 0,
     mask |-> n - 1]

\* i increments of the odometer from the state ind
RECURSIVE Increments(_, _, _, _)
Increments(ind, i, L, n) ==
    IF i = 0 THEN ind ELSE Increments(odometer(ind, L, n), i - 1, L, n)

\* i increments of the pair from the state ps
RECURSIVE PairIncrements(_, _, _)
PairIncrements(ps, i, S_COUNT) ==
    IF i = 0 THEN ps ELSE PairIncrements(pair_next(ps, S_COUNT), i - 1, S_COUNT)

\* the dictionary sizes and lengths whose power the u128 of the model holds
Powers ==
    { p \in (1..(MaxLen + 1)) \X (0..MAX_WORD_LENGTH) :
        Pow(p[1], p[2]) < U128_LIMIT }

\* from every start index of every such power, and of every product of two
\* line counts, the increments lead to the decomposition of the index reached
ResumableFromEveryIndex ==
    /\ \A p \in Powers :
          \A s \in 0..(Pow(p[1], p[2]) - 1) :
             \A i \in 0..(Pow(p[1], p[2]) - 1 - s) :
                Increments(decompose(DataFor(p[1], p[2], s)), i, p[2], p[1])
                    = decompose(DataFor(p[1], p[2], s + i))
    /\ \A P_COUNT \in 1..MaxLen, S_COUNT \in 1..MaxLen :
          \A s \in 0..(P_COUNT * S_COUNT - 1) :
             \A i \in 0..(P_COUNT * S_COUNT - 1 - s) :
                PairIncrements(<<s \div S_COUNT, s % S_COUNT>>, i, S_COUNT)
                    = <<(s + i) \div S_COUNT, (s + i) % S_COUNT>>

(***************************************************************************)
(* C22.  Sequential enumeration is resumable by direct decomposition: the  *)
(* position indices of a worker that started at index s and has formatted  *)
(* i lines, s + i below the total, are the decomposition of s + i (the     *)
(* base-n digits; for prefix/suffix the pair (index / |suffix|, index mod  *)
(* |suffix|)), so that the next line is the tuple of index s + i; and the  *)
(* same holds from every start index of every power and product of the     *)
(* model, not only from the starts of the ranges.                          *)
(***************************************************************************)
C22_ResumableByDecomposition ==
    /\ ResumableFromEveryIndex
    /\ SequentialBatch =>
          \A t \in Assigned :
             (tpc[t] \notin {"none", "start"}
                  /\ StartOf(t) + iter[t] < batch.total_combinations) =>
                 LET at == StartOf(t) + iter[t]
                 IN  IF prog = "generator"
                     THEN /\ indices[t]
                                = decompose([thread_data[t]
                                               EXCEPT !.startIndex = at])
                          /\ indices[t]
                                = Digits(at, thread_data[t].length,
                                         thread_data[t].numWords)
                     ELSE indices[t] = <<at \div suffix.line_count,
                                         at % suffix.line_count>>

\* a worker has formatted lines up to a carry into the position before the
\* last, and a worker whose range does not start at 0 has formatted a line
C22_Witness ==
    /\ GenSequentialRun
    /\ InBatch
    /\ \E t, u \in Assigned :
          /\ tpc[t] \notin {"none", "start"}
          /\ iter[t] >= 1
          /\ StartOf(t) + iter[t] < batch.total_combinations
          /\ thread_data[t].length >= 2
          /\ indices[t][thread_data[t].length] = 0
          /\ tpc[u] \notin {"none", "start"}
          /\ StartOf(u) > 0
          /\ iter[u] >= 1

\* the powers of two n and the lengths L whose power n^L the u128 of the
\* model holds
PowersOfTwo ==
    { p \in (1..U128_LIMIT) \X (0..MAX_WORD_LENGTH) :
        is_power_of_two(p[1]) /\ Pow(p[1], p[2]) < U128_LIMIT }

ShiftIsDivisionEverywhere ==
    \A p \in PowersOfTwo :
       \A s \in 0..Pow(p[1], p[2]) :
          decompose_shift(s, p[2], p[1] - 1, log2(p[1]))
              = decompose_div(s, p[2], p[1])

(***************************************************************************)
(* C23.  For a dictionary whose size n is a power of two (1 included) the  *)
(* decomposition by shift (log2 n bits) and mask (n - 1) gives the same L  *)
(* position indices as the one by division and modulo: for every such n,   *)
(* every length L and every start index of [0, n^L], and for the start     *)
(* index of every worker the generator creates.                            *)
(***************************************************************************)
C23_ShiftEqualsDivision ==
    /\ ShiftIsDivisionEverywhere
    /\ (GenSequentialRun /\ InBatch) =>
          \A t \in Assigned :
             thread_data[t].is_power_of_two =>
                 /\ thread_data[t].mask = thread_data[t].numWords - 1
                 /\ Pow(2, thread_data[t].shift_bits) = thread_data[t].numWords
                 /\ decompose(thread_data[t])
                        = decompose_div(thread_data[t].startIndex,
                                        thread_data[t].length,
                                        thread_data[t].numWords)

\* a worker of a dictionary of two tokens has decomposed a start index
\* above 0 into two or more positions by shift and mask
C23_Witness ==
    /\ GenSequentialRun
    /\ InBatch
    /\ \E t \in Assigned :
          /\ tpc[t] \notin {"none", "start"}
          /\ thread_data[t].is_power_of_two
          /\ thread_data[t].numWords = 2
          /\ thread_data[t].length >= 2
          /\ thread_data[t].startIndex > 0

\* u comes before v in the lexicographic order of the positions, the first
\* position being the most significant
LexLess(u, v) ==
    \E k \in DOMAIN u : u[k] < v[k] /\ \A m \in 1..(k - 1) : u[m] = v[m]

\* the element of the set S of position tuples that has r elements before it
OfRank(S, r) ==
    CHOOSE u \in S : Cardinality({v \in S : LexLess(v, u)}) = r

\* the line of the tuple of rank r in the enumeration of worker t
LineOfRank(t, r) ==
    IF prog = "generator"
    THEN TupleLine(words,
                   OfRank(Tuples(thread_data[t].numWords,
                                 thread_data[t].length), r),
                   thread_data[t].noSpaces)
    ELSE LET q == OfRank((0..(prefix.line_count - 1))
                             \X (0..(suffix.line_count - 1)), r)
         IN  PairBytes(Entries(prefix.data), Entries(suffix.data),
                       <<q[1] + 1, q[2] + 1>>)

(***************************************************************************)
(* C24.  Sequential output is in increasing order of the linear index,     *)
(* which is the lexicographic order of the positions with the last one     *)
(* varying fastest (prefix/suffix: every suffix of prefix 0, then of       *)
(* prefix 1, ...): the j-th line a worker has written is the line of the   *)
(* tuple that has start + j - 1 tuples before it in that order.  With one  *)
(* worker this is the order of the whole sink.                             *)
(***************************************************************************)
C24_LexicographicOrder ==
    (SequentialBatch /\ (prog = "generator" => Len(words) >= 1)) =>
        \A t \in Assigned :
            tpc[t] \notin {"none", "start"} =>
                LET lines == SplitLines(WorkerBytes(t, LengthOf(t)))
                IN  \A j \in DOMAIN lines :
                        lines[j] = LineOfRank(t, StartOf(t) + j - 1)

\* the only worker of a run has written the four or more lines of a length
\* of at least 2
C24_Witness ==
    /\ GenSequentialRun
    /\ InBatch
    /\ num_threads = 1
    /\ tpc[0] = "done"
    /\ thread_data[0].length >= 2
    /\ thread_data[0].numWords >= 2
    /\ Len(SplitLines(WorkerBytes(0, LengthOf(0)))) >= 4

\* the ranges the mapping is checked for: below, at and above the number of
\* draws
Ranges == 1..(Pow(2, RandBits) + MaxLen)

\* the draws that fast_map_to_range sends to the value v of the range n
DrawsTo(v, n) == {r \in Draws : fast_map_to_range(r, n) = v}

HighHalfMapping ==
    \A n \in Ranges :
        /\ \A r \in Draws :
              /\ fast_map_to_range(r, n) \in 0..(n - 1)
              /\ fast_map_to_range(r, n) * Pow(2, RandBits) <= r * n
              /\ r * n < (fast_map_to_range(r, n) + 1) * Pow(2, RandBits)
        /\ \A r1, r2 \in Draws :
              r1 <= r2 => fast_map_to_range(r1, n) <= fast_map_to_range(r2, n)
        /\ \A v1, v2 \in 0..(n - 1) :
              Cardinality(DrawsTo(v1, n)) - Cardinality(DrawsTo(v2, n)) <= 1

\* the sizes worker t maps its draws to
RangesOf(t) ==
    IF prog = "generator" THEN {thread_data[t].numWords}
    ELSE {prefix.line_count, suffix.line_count}

Seeded(t) == tpc[t] \notin {"none", "start"}

C26_DistinctSeeds ==
    (prog \in {"generator", "cd"} /\ InBatch) =>
        \A t, u \in Assigned :
            ( /\ t # u
              /\ thread_data[t].mode = MODE_RANDOM
              /\ thread_data[u].mode = MODE_RANDOM
              /\ Seeded(t) /\ Seeded(u) )
            => seed(t) # seed(u)

(***************************************************************************)
(* C27: the dictionary data, the task records, the mutex and the sink are  *)
(* not released, destroyed or closed while a spawned worker has not        *)
(* terminated.  main releases them only in its cleanup, which ends in the  *)
(* return: once main has left the batch for its exit, every worker it      *)
(* created has terminated.                                                 *)
(***************************************************************************)
Terminated(t) == tpc[t] \in {"none", "done"}

C27_ReleasedAfterTheWorkers ==
    (prog \in {"generator", "cd"} /\ main_pc = "exit") =>
        \A t \in Threads : Terminated(t)

(***************************************************************************)
(* C28: output lines are never torn across workers.  Whatever a live       *)
(* worker holds in its buffer, at the loop test, before and inside a flush *)
(* and while it formats, is a sequence of complete lines, each ended by    *)
(* its newline; every write to the sink is made by one worker and, when    *)
(* the sink accepts it, carries complete lines only, so the sink is a      *)
(* sequence of whole lines.                                                *)
(***************************************************************************)
WholeLines(bytes) == Len(bytes) = 0 \/ bytes[Len(bytes)] = NL

Buffered(t) == SubSeq(write_buffer[t], 1, buffer_offset[t])

C28_LinesAreNeverTorn ==
    prog \in {"generator", "cd"} =>
        /\ \A t \in Threads :
              tpc[t] \notin {"none", "start", "done"}
              => WholeLines(Buffered(t))
        /\ \A i \in DOMAIN sink :
              /\ sink[i].by \in Threads
              /\ sink[i].ok => WholeLines(sink[i].bytes)
        /\ (\A i \in DOMAIN sink : sink[i].ok) =>
              \A L \in 0..MaxLen :
                  \A k \in DOMAIN SinkLines(L) : WholeLines(SinkLines(L)[k])

\* two workers whose writes alternate in the sink, one of them of several
\* lines
C28_Witness ==
    /\ prog \in {"generator", "cd"}
    /\ \E i, j, k \in DOMAIN sink :
          /\ i < j /\ j < k
          /\ sink[i].by = sink[k].by
          /\ sink[i].by # sink[j].by
          /\ Count(sink[i].bytes, NL) >= 2

(***************************************************************************)
(* C29: every index a worker uses to read a dictionary entry is within     *)
(* [0, size).  A worker reads entries when it formats a line: in           *)
(* sequential mode the entries at indices[], in random mode the entries    *)
(* at the images of its draws.  The dictionaries are those the loaders     *)
(* accept, generator.c's loader accepting a file of no token.              *)
(***************************************************************************)
\* worker t is about to format a line
AboutToFormat(t) ==
    \/ tpc[t] = "format"
    \/ tpc[t] = "loop" /\ ~LoopIsOver(t) /\ LoopGoesOn(t)

\* the indices worker t may read entries at when it formats its next line:
\* pairs <<index, size of the table read>>
ReadIndices(t) ==
    IF prog = "generator"
    THEN IF thread_data[t].mode = MODE_RANDOM
         THEN { <<fast_map_to_range(r, thread_data[t].numWords), Len(words)>> :
                  r \in IF thread_data[t].length > 0 THEN Draws ELSE {} }
         ELSE { <<indices[t][k], Len(words)>> :
                  k \in 1..thread_data[t].length }
    ELSE IF thread_data[t].mode = MODE_RANDOM /\ tpc[t] = "loop"
         THEN { <<fast_map_to_range(r, prefix.line_count),
                  prefix.line_count>> : r \in Draws }
              \cup { <<fast_map_to_range(r, suffix.line_count),
                      suffix.line_count>> : r \in Draws }
         ELSE { <<indices[t][1], prefix.line_count>>,
                <<indices[t][2], suffix.line_count>> }

C29_IndicesWithinTheDictionary ==
    (prog \in {"generator", "cd"} /\ InBatch) =>
        \A t \in Assigned :
            AboutToFormat(t) =>
                \A p \in ReadIndices(t) : 0 <= p[1] /\ p[1] < p[2]

(***************************************************************************)
(* C30: a sequential run and a random run with an item count terminate     *)
(* without deadlock.  Under fair scheduling the run reaches the state      *)
(* where main has left its loops and returned, every worker it created     *)
(* has finished its count and returned, and the mutex is free.             *)
(***************************************************************************)
BoundedRun == prog \in {"generator", "cd"} /\ ~UnboundedRun

AllDone ==
    /\ main_pc = "exit"
    /\ \A t \in Threads : Terminated(t)
    /\ ~mutex.locked

C30_BoundedRunsTerminate == BoundedRun => <>AllDone

\* the same, of the runs in which no worker draws from a dictionary of no
\* entry
C30_TerminatesOnADictionary ==
    (BoundedRun /\ ~(GenRandomRun /\ argv.dict.open
                      /\ Len(read_dictionary(argv.dict.data)) = 0))
    => <>AllDone

(***************************************************************************)
(* C31: the two prefix/suffix programs agree.  For the same two files the  *)
(* single-threaded program (nested loops over the entries that map_file    *)
(* delimits by newline offsets) and the threaded program run with one      *)
(* worker (start/length records of map_and_index_file, the pair advanced   *)
(* from the linear index 0) emit the same lines in the same order, byte    *)
(* for byte: a sequential run of either program that has ended has written *)
(* the bytes of both.                                                      *)
(***************************************************************************)
\* the lines generate_sequential_combinations writes for two mapped files
V1Lines(p, s) ==
    IF p.line_count = 0 \/ s.line_count = 0 THEN <<>>
    ELSE [q \in 1..(p.line_count * s.line_count) |->
            V1LineBytes(p, (q - 1) \div s.line_count)
            \o V1LineBytes(s, (q - 1) % s.line_count) \o <<NL>>]

\* the lines of the single-threaded program for two file arguments
V1Output(f, g) ==
    IF ~f.open \/ ~g.open THEN <<>>
    ELSE V1Lines(map_file(f.data), map_file(g.data))

\* the lines the one worker of the threaded program formats from the pair
\* ps on, count of them
RECURSIVE CdLinesFrom(_, _, _, _)
CdLinesFrom(p, s, ps, count) ==
    IF count = 0 THEN <<>>
    ELSE <<LineBytes(p, ps[1]) \o LineBytes(s, ps[2]) \o <<NL>>>>
         \o CdLinesFrom(p, s, pair_next(ps, s.line_count), count - 1)

\* the lines of the threaded program with one worker for two file arguments
CdOutput(f, g) ==
    IF ~f.open \/ ~g.open THEN <<>>
    ELSE LET p == map_and_index_file(f.data)
             s == map_and_index_file(g.data)
         IN  IF p.null \/ s.null THEN <<>>
             ELSE CdLinesFrom(p, s,
                              <<0 \div s.line_count, 0 % s.line_count>>,
                              p.line_count * s.line_count)

\* a sequential run of one of the two programs, the threaded one with one
\* worker
OneWorkerPairRun ==
    \/ prog = "cd_v1" /\ ~argv.random_mode
    \/ prog = "cd" /\ ~argv.random_mode /\ Configured = 1

Ended == main_pc \in {"exit", "killed"}

C31_TheTwoProgramsAgree ==
    (OneWorkerPairRun /\ Ended) =>
        /\ SinkBytes(0) = Flatten(V1Output(argv.prefix, argv.suffix))
        /\ SinkBytes(0) = Flatten(CdOutput(argv.prefix, argv.suffix))
====
